---- MODULE Spec2Model ----
(***************************************************************************)
(* Second Brain backend: the content-ingestion / summary-reuse pipeline    *)
(* (controller/content.controller.ts, services/*.ts) and the share-link    *)
(* gateway (controller/link.controller.ts) over the Mongo collections      *)
(* Content, Source and Link.                                               *)
(*                                                                         *)
(* Every Express handler is an async function: it runs without preemption  *)
(* from one `await` to the next, so each handler is modelled as a request  *)
(* record with a program counter `pc`, and one action per `await`ed store  *)
(* or network operation.  Handlers of different requests interleave at     *)
(* these points.  A collection is a sequence in natural (insertion) order; *)
(* findOne returns the first matching document of that order.              *)
(***************************************************************************)
EXTENDS Integers, Sequences, FiniteSets, TLC

\* ------------------------------------------------------------- bounds
\* Requests received in one behaviour.
MaxReqs == 3
\* Requests received in one behaviour of the interleaved content handlers.
MaxRaceReqs == 2
\* Requests received in one behaviour of the routed handlers.
MaxRoutedReqs == 2
\* Requests received in one behaviour of the account handlers.
MaxAccountReqs == 3
\* Handlers running at the same time.
MaxInFlight == 2
\* Distinct values the random byte source can yield per token length.
NumTokens == 2
\* Token lengths 1..MaxHashLength are generated, besides the lengths in use.
MaxHashLength == 4

\* ------------------------------------------------------------- values
Users == {"u1", "u2"}

UrlGitHub == "https://github.com/x/y"
UrlYouTube == "https://www.youtube.com/watch?v=abc"
UrlFacebook == "https://www.facebook.com/p/1"
\* A link whose path is empty.
UrlTwitterRoot == "https://twitter.com/"

\* Texts the generative model may return.
Texts == {"S1", "S2"}

\* A field that is not set on a document (JavaScript undefined).
Undefined == "undefined"

NoId == 0
\* A string that is no ObjectId.
BadId == -1

\* The summary path of a Content document: optional text, absent until set.
SummaryField == [summary |-> Undefined]

\* A Content document with the paths of the schema (and its _id) unset.
NoDoc ==
  [id |-> NoId, link |-> "", type |-> "", title |-> "", userId |-> "", source |-> ""]
    @@ SummaryField

\* A token is the pair of its length and the random value it encodes.
NoHash == <<0, 0>>

NoLinkDoc == [hash |-> NoHash, userId |-> "", contentId |-> NoId]

\* enum ContentType of the Content schema.
ContentType == {"video", "image", "audio", "article"}

\* enum ContentSource of the Content schema.
ContentSource ==
  {"youtube", "vimeo", "spotify", "soundcloud", "twitter", "facebook",
   "linkedin", "github"}

\* ------------------------------------------------------------- state
VARIABLES
  contents,   \* collection Content
  sources,    \* collection Source
  links,      \* collection Link
  reqs,       \* handlers in flight
  started,    \* number of requests received so far
  last,       \* the request that completed last, with its response
  overlap,    \* pairs of requests of one operation that ran at the same time
  issued,     \* per user: hashes enableShare returned since the last disableShare
  revoked,    \* per user: hashes returned before a disableShare completed, while
              \* no enableShare has started since
  users,      \* collection User
  otps,       \* collection Otp
  tokens,     \* ids of the users a refresh token has been signed for
  produced    \* pairs <<link, text>>: the texts generateSummary returned to a
              \* create, with the link it was called for

\* The collections and tokens of the user handlers.
account == <<users, otps, tokens>>

vars ==
  <<contents, sources, links, reqs, started, last, overlap, issued, revoked, account,
    produced>>

\* ------------------------------------------------------------- store helpers
Range(s) == {s[i] : i \in 1..Len(s)}

\* Model.findOne(filter): the first document in natural order, or null.
FindOne(coll, Test(_), none) ==
  LET m == SelectSeq(coll, Test) IN IF Len(m) = 0 THEN none ELSE m[1]

\* Model.findOneAndDelete(filter): removes the first matching document only.
RemoveFirst(coll, Test(_)) ==
  LET idx == {i \in 1..Len(coll) : Test(coll[i])} IN
  IF idx = {} THEN coll
  ELSE LET k == CHOOSE i \in idx : \A j \in idx : i <= j IN
       SubSeq(coll, 1, k - 1) \o SubSeq(coll, k + 1, Len(coll))

\* ------------------------------------------------------------- query values
\* A query value is the sequence of its characters; an absent one is empty.
Absent == <<>>

DigitValue ==
  ("0" :> 0) @@ ("1" :> 1) @@ ("2" :> 2) @@ ("3" :> 3) @@ ("4" :> 4) @@
  ("5" :> 5) @@ ("6" :> 6) @@ ("7" :> 7) @@ ("8" :> 8) @@ ("9" :> 9)

\* The digits a string starts with.
RECURSIVE LeadingDigits(_)
LeadingDigits(raw) ==
  IF Len(raw) = 0 \/ raw[1] \notin DOMAIN DigitValue THEN <<>>
  ELSE <<raw[1]>> \o LeadingDigits(Tail(raw))

RECURSIVE DecimalValue(_)
DecimalValue(digits) ==
  IF Len(digits) = 0 THEN 0
  ELSE 10 * DecimalValue(SubSeq(digits, 1, Len(digits) - 1)) + DigitValue[digits[Len(digits)]]

\* parseInt(string): an optional sign, then the leading digits; NaN when the
\* string (or undefined) starts with no digit.
parseInt(raw) ==
  LET negative == Len(raw) > 0 /\ raw[1] = "-"
      digits == LeadingDigits(IF negative THEN Tail(raw) ELSE raw)
  IN IF Len(digits) = 0 THEN [nan |-> TRUE, val |-> 0]
     ELSE [nan |-> FALSE, val |-> IF negative THEN 0 - DecimalValue(digits)
                                  ELSE DecimalValue(digits)]

\* x ?? dflt in place of x || dflt: only NaN falls back.
OrDefaultNaNOnly(x, dflt) == IF x.nan THEN dflt ELSE x.val

\* x || dflt on a number: NaN and 0 are falsy.
OrDefault(x, dflt) == IF x.nan \/ x.val = 0 THEN dflt ELSE x.val

Reverse(s) == [i \in 1..Len(s) |-> s[Len(s) + 1 - i]]

\* ------------------------------------------------------------- requests
NoQuery == [pageNumber |-> Absent, pageSize |-> Absent, source |-> ""]

NoBody ==
  [link |-> "", type |-> "", title |-> "", source |-> "", contentId |-> NoId,
   shareBrain |-> FALSE, hash |-> NoHash, query |-> NoQuery]

\* A token: its text is empty when there is none; otherwise the _id of its
\* payload, whether it was signed with JWT_SECRET and whether it has expired.
NoToken == [text |-> "", _id |-> "", signed |-> FALSE, expired |-> FALSE]

\* The authorization header of a request: absent, or "<scheme> <token>".
NoAuthorization == [present |-> FALSE, scheme |-> "", token |-> NoToken]

\* A User document: isEmailVerified defaults to false, password is the bcrypt
\* hash of the password.
NoUser ==
  [id |-> NoId, username |-> "", email |-> "", isEmailVerified |-> FALSE,
   password |-> <<>>]

\* An Otp document: the user it belongs to, the verification hash and the code.
NoOtp == [userId |-> NoId, hashedCode |-> NoHash, code |-> ""]

\* The refresh-token cookie: absent, or a token with the _id of its payload
\* that was or was not signed with JWT_REFRESH_SECRET.
NoCookie == [present |-> FALSE, signed |-> FALSE, _id |-> NoId]

\* What the request answered before this one was and returned.
NoPrevious ==
  [op |-> "none", status |-> 0, message |-> "", hash |-> NoHash, code |-> "",
   fetchUser |-> NoUser]

\* What the store held when a request arrived, and the authorization header
\* the request carried (kept for the properties only).
NoPre ==
  [contents |-> <<>>, sources |-> <<>>, links |-> <<>>, issued |-> {},
   authorization |-> NoAuthorization, users |-> <<>>, otps |-> <<>>,
   previous |-> NoPrevious]

\* An error object: its name, its code and statusCode properties (0 when it
\* has none), its class, and whether it has a message.
NoError == [name |-> "", code |-> 0, statusCode |-> 0, class |-> "", message |-> ""]

\* The outcome of a call that has not returned.
NoOutcome == [ok |-> FALSE, text |-> "", why |-> ""]

\* A handler: its request (op, userId, body), its position pc, its locals
\* (doc, found, link, hash, paging, page, count) and its response (status, the message
\* of sendResponse or of the error passed on, with doc, link, username, page
\* and count as the data).  `read` is the set of non-empty summaries the
\* records with the request's link carried when the handler looked for a
\* reusable one (kept for the properties only).  For a call of generateSummary,
\* `strategy` is the function the switch returned through, `external` tells
\* whether it called an external service, and `out` is what it returned or threw.
\* For a run of the error handler, `err` is the error, `env` is NODE_ENV and
\* `text` is the parts of the message it answers.  For a call of generateHash,
\* `length` is its argument and `text` the characters of the string returned.
\* `via` is what wrote the response: sendResponse, the error handler or the
\* route-not-found handler.  For a request a middleware answered, `op` is the
\* middleware and `route` the route it guards.  `calls` is the external calls
\* a run of a summary strategy has made, in order, each with its success.
\* `sent` counts the responses written for the request (for a call of a
\* function: its returns).  For an account handler, `username`, `email`,
\* `password` and `code` are fields of the body, `cookie` is the refresh-token cookie, `hash`
\* is the verification hash (of the path, or generated), `code` is also the
\* code a handler generated and mailed, `otpData` and `fetchUser` are the
\* documents it found, and `token` is the _id createToken signed a token for.
NoReq ==
  [n |-> 0, op |-> "none", userId |-> "", body |-> NoBody, pc |-> "done",
   status |-> 0, doc |-> NoDoc, found |-> Undefined, link |-> NoLinkDoc,
   hash |-> NoHash, username |-> "", page |-> <<>>, count |-> 0,
   paging |-> [pageNumber |-> 0, pageSize |-> 0],
   invoked |-> FALSE, failed |-> FALSE, message |-> "", pre |-> NoPre,
   read |-> {}, strategy |-> "", external |-> FALSE, out |-> NoOutcome,
   err |-> NoError, env |-> "", text |-> <<>>, length |-> 0,
   via |-> "sendResponse", route |-> "", calls |-> <<>>, sent |-> 0,
   email |-> "", password |-> "", code |-> "",
   otpData |-> NoOtp, fetchUser |-> NoUser, token |-> NoId, cookie |-> NoCookie]

NewReq(op, userId, body, pc, pre) ==
  [NoReq EXCEPT !.n = started + 1, !.op = op, !.userId = userId,
                !.body = body, !.pc = pc, !.pre = pre]

\* The store as it is when a request of userId arrives.  "The store before
\* the call" has a meaning only when handlers run one at a time.
Pre(load, userId) ==
  IF load.limit > 1 THEN NoPre
  ELSE [contents |-> contents, sources |-> sources, links |-> links,
        issued |-> IF userId \in Users THEN issued[userId] ELSE {},
        authorization |-> IF "authorization" \in DOMAIN load THEN load.authorization
                          ELSE NoAuthorization,
        users |-> users, otps |-> otps,
        previous |-> IF "previous" \in DOMAIN load
                     THEN [op |-> last.op, status |-> last.status,
                           message |-> last.message, hash |-> last.hash,
                           code |-> last.code, fetchUser |-> last.fetchUser]
                     ELSE NoPrevious]

\* The handler of r moves on to its next await.
Goto(r, r2) == reqs' = (reqs \ {r}) \cup {r2}

\* sendResponse / next(error): the handler of r ends with r2 as its record.
Complete(r, r2) ==
  /\ reqs' = reqs \ {r}
  /\ last' = [r2 EXCEPT !.pc = "done", !.sent = r2.sent + 1]

\* How requests arrive: at most `limit` handlers run at the same time, and
\* `max` requests are received in all.
OneAtATime == [limit |-> 1, max |-> MaxReqs]
Interleaved == [limit |-> MaxInFlight, max |-> MaxReqs]
Racing == [limit |-> MaxInFlight, max |-> MaxRaceReqs]

\* A request arrives.
Receive(load) ==
  /\ Cardinality(reqs) < load.limit
  /\ started < load.max
  /\ started' = started + 1
  /\ UNCHANGED <<account, produced>>

\* The running requests of the same operation (for the collection-share
\* handler: of the same shareBrain branch) that r, on arriving, overlaps.
Overlaps(r) ==
  {[op |-> r.op, shareBrain |-> r.body.shareBrain, ns |-> {q.n, r.n},
    users |-> {q.userId, r.userId}] :
     q \in {x \in reqs : x.op = r.op /\ x.body.shareBrain = r.body.shareBrain}}

\* ------------------------------------------------------------- error handler
\* The classes an error of this class is an instance of.
Classes(class) ==
  IF class = "TokenExpiredError" THEN {"TokenExpiredError", "JsonWebTokenError", "Error"}
  ELSE IF class = "NotBeforeError" THEN {"NotBeforeError", "JsonWebTokenError", "Error"}
  ELSE {class, "Error"}

\* statusCode without the branch for validation errors.
statusCodeValidationUnhandled(err) ==
  LET preset == IF err.statusCode # 0 THEN err.statusCode ELSE 500
      duplicate == IF err.code = 11000 THEN 400 ELSE preset
      cast == IF err.name = "CastError" THEN 400 ELSE duplicate
  IN IF "TokenExpiredError" \in Classes(err.class) THEN 401
     ELSE IF "JsonWebTokenError" \in Classes(err.class) THEN 401
     ELSE IF err.name = "UnauthorizedError" THEN 401
     ELSE cast

\* let statusCode = err.statusCode || 500, then the checks of the error
\* handler in their order; a later one overwrites an earlier one.
statusCode(err) ==
  LET preset == IF err.statusCode # 0 THEN err.statusCode ELSE 500
      duplicate == IF err.code = 11000 THEN 400 ELSE preset
      cast == IF err.name = "CastError" THEN 400 ELSE duplicate
      token == IF "TokenExpiredError" \in Classes(err.class) THEN 401
               ELSE IF "JsonWebTokenError" \in Classes(err.class) THEN 401
               ELSE IF err.name = "UnauthorizedError" THEN 401
               ELSE cast
  IN IF err.name = "ValidationError" THEN 400 ELSE token

\* let message = err.message || "Internal Server Error", overwritten by the
\* same checks; in DEVELOPMENT the answer carries err.toString() instead.
message(err, env) ==
  LET preset == IF err.message # "" THEN <<err.message>> ELSE <<"Internal Server Error">>
      duplicate == IF err.code = 11000 THEN <<"Duplicate key error: ", "keyValue">> ELSE preset
      cast == IF err.name = "CastError" THEN <<"Invalid format: ", "path">> ELSE duplicate
      token == IF "TokenExpiredError" \in Classes(err.class) THEN <<"Token expired">>
               ELSE IF "JsonWebTokenError" \in Classes(err.class) THEN <<"Invalid token">>
               ELSE IF err.name = "UnauthorizedError"
               THEN (IF err.message # "" THEN <<err.message>> ELSE <<"Unauthorized access">>)
               ELSE cast
      validation == IF err.name = "ValidationError" THEN <<"errors">> ELSE token
  IN IF env = "DEVELOPMENT"
     THEN (IF err.message # "" THEN <<err.name, ": ", err.message>> ELSE <<err.name>>)
     ELSE validation

\* The error object a library throws under this name.
ErrorNamed(name) ==
  [name |-> IF name = "DuplicateKey" THEN "MongoServerError" ELSE name,
   code |-> IF name = "DuplicateKey" THEN 11000 ELSE 0,
   statusCode |-> 0,
   class |-> IF name \in {"JsonWebTokenError", "TokenExpiredError", "NotBeforeError"}
             THEN name ELSE "Error",
   message |-> name]

\* errorHandlerMiddleware: the status answered for an error passed to next().
errorHandlerMiddleware(err) == statusCode(ErrorNamed(err))

\* The errors that reach the error handler: those of the store driver and of
\* mongoose, those of jsonwebtoken, plain errors with and without a message,
\* and errors that carry a statusCode (those of the body parser).
Errors ==
  {ErrorNamed(n) : n \in {"DuplicateKey", "CastError", "ValidationError",
                          "DocumentNotFoundError", "JsonWebTokenError",
                          "TokenExpiredError", "NotBeforeError", "UnauthorizedError",
                          "Error", "TypeError", "MongooseError",
                          "MongoNetworkError"}}
  \cup {[ErrorNamed("Error") EXCEPT !.message = ""],
        [ErrorNamed("UnauthorizedError") EXCEPT !.message = ""],
        [ErrorNamed("MongoServerError") EXCEPT !.code = 121],
        [ErrorNamed("SyntaxError") EXCEPT !.statusCode = 400],
        [ErrorNamed("PayloadTooLargeError") EXCEPT !.statusCode = 413],
        [ErrorNamed("NotFoundError") EXCEPT !.statusCode = 404]}

\* The error handler runs on an error passed to next() or thrown.
errorHandlerMiddlewareRun(load, err, env) ==
  /\ Receive(load)
  /\ last' = [NewReq("errorHandlerMiddleware", "", NoBody, "done", Pre(load, ""))
                EXCEPT !.err = err, !.env = env, !.failed = TRUE, !.sent = 1,
                       !.status = statusCode(err), !.text = message(err, env),
                       !.via = "errorHandlerMiddleware"]
  /\ UNCHANGED <<contents, sources, links, reqs, overlap, issued, revoked>>

\* ------------------------------------------------------------- summary provider
\* new URL(link).pathname.split('/').slice(1)
PathSegments(link) ==
  IF link = UrlGitHub THEN <<"x", "y">>
  ELSE IF link = UrlYouTube THEN <<"watch">>
  ELSE IF link = UrlFacebook THEN <<"p", "1">>
  ELSE <<"">>

\* new URL(link).searchParams.get('v')
SearchParamV(link) == IF link = UrlYouTube THEN "abc" ELSE ""

Failure(why) == [ok |-> FALSE, text |-> "", why |-> why]
Success(text) == [ok |-> TRUE, text |-> text, why |-> ""]

\* What the metadata fetch followed by the generative call can end in.
ExternalCalls ==
  {Failure("FetchFailed"), Failure("GenerationFailed")} \cup {Success(t) : t \in Texts}

getYouTubeSummary(link) ==
  IF SearchParamV(link) = "" THEN {Failure("InvalidLink")} ELSE ExternalCalls

\* const tweetId = new URL(tweetUrl).pathname.split('/').pop()
getTwitterSummary(link) ==
  LET segs == PathSegments(link)
      tweetId == segs[Len(segs)] IN
  IF tweetId = "" THEN {Failure("InvalidLink")} ELSE ExternalCalls

\* const [owner, repo] = new URL(repoUrl).pathname.split('/').slice(1)
getGitHubSummary(link) ==
  LET segs == PathSegments(link) IN
  IF Len(segs) < 2 \/ segs[1] = "" \/ segs[2] = "" THEN {Failure("InvalidLink")}
  ELSE ExternalCalls

\* generateSummary(source, link): the outcomes one invocation can have.
generateSummary(source, link) ==
  IF source = "youtube" THEN getYouTubeSummary(link)
  ELSE IF source = "twitter" THEN getTwitterSummary(link)
  ELSE IF source = "github" THEN getGitHubSummary(link)
  ELSE {Success("")}

\* The switch of generateSummary with the twitter case falling through to the
\* github case.
StrategyFallingThrough(source) ==
  IF source = "youtube" THEN "getYouTubeSummary"
  ELSE IF source = "twitter" THEN "getGitHubSummary"
  ELSE IF source = "github" THEN "getGitHubSummary"
  ELSE "default"

\* The switch of generateSummary: the function the call returns through.
Strategy(source) ==
  IF source = "youtube" THEN "getYouTubeSummary"
  ELSE IF source = "twitter" THEN "getTwitterSummary"
  ELSE IF source = "github" THEN "getGitHubSummary"
  ELSE "default"

\* generateSummary called on its own: the switch; the default case returns ''
\* at once.
generateSummaryCall(load, source, link) ==
  LET r == [NewReq("generateSummary", "", [NoBody EXCEPT !.source = source, !.link = link],
                   Strategy(source), Pre(load, "")) EXCEPT !.invoked = TRUE] IN
  /\ Receive(load)
  /\ IF r.pc = "default"
     THEN last' = [r EXCEPT !.pc = "done", !.sent = 1, !.out = Success("")] /\ UNCHANGED reqs
     ELSE reqs' = reqs \cup {r} /\ UNCHANGED last
  /\ UNCHANGED <<contents, sources, links, overlap, issued, revoked>>

\* A strategy returns or throws: it has called its external services unless
\* it rejected the link before.
StrategyReturns(r, strategy, outcomes) ==
  /\ r.op = "generateSummary" /\ r.pc = strategy
  /\ \E out \in outcomes :
       Complete(r, [r EXCEPT !.out = out, !.strategy = strategy, !.failed = ~out.ok,
                             !.external = (out.why # "InvalidLink")])
  /\ UNCHANGED <<contents, sources, links, started, account, produced, overlap, issued, revoked>>

\* case 'youtube': return getYouTubeSummary(link)
generateSummaryYouTube(r) ==
  StrategyReturns(r, "getYouTubeSummary", getYouTubeSummary(r.body.link))

\* case 'twitter': return getTwitterSummary(link)
generateSummaryTwitter(r) ==
  StrategyReturns(r, "getTwitterSummary", getTwitterSummary(r.body.link))

\* case 'github': return getGitHubSummary(link)
generateSummaryGitHub(r) ==
  StrategyReturns(r, "getGitHubSummary", getGitHubSummary(r.body.link))

\* The requests of axios.get a strategy makes before its generative call.
MetadataCalls(strategy) ==
  IF strategy = "getYouTubeSummary" THEN <<"youtube/v3/videos">>
  ELSE IF strategy = "getTwitterSummary" THEN <<"2/tweets/:id">>
  ELSE IF strategy = "getGitHubSummary" THEN <<"repos/:owner/:repo", "repos/:owner/:repo/readme">>
  ELSE <<>>

\* The check of the identifier a strategy takes from the link passes.
Extracted(strategy, link) ==
  IF strategy = "getYouTubeSummary" THEN getYouTubeSummary(link) # {Failure("InvalidLink")}
  ELSE IF strategy = "getTwitterSummary" THEN getTwitterSummary(link) # {Failure("InvalidLink")}
  ELSE getGitHubSummary(link) # {Failure("InvalidLink")}

\* generateSummary up to the first await of the strategy it calls: the switch,
\* then the identifier taken from the link and its check.
generateSummaryEnter(load, source, link) ==
  LET r == [NewReq("generateSummary", "", [NoBody EXCEPT !.source = source, !.link = link],
                   "get", Pre(load, ""))
              EXCEPT !.invoked = TRUE, !.strategy = Strategy(source)] IN
  /\ Receive(load)
  /\ IF r.strategy = "default"
     THEN last' = [r EXCEPT !.pc = "done", !.sent = 1, !.out = Success("")] /\ UNCHANGED reqs
     ELSE IF ~Extracted(r.strategy, link)
     THEN last' = [r EXCEPT !.pc = "done", !.sent = 1, !.out = Failure("InvalidLink"), !.failed = TRUE]
          /\ UNCHANGED reqs
     ELSE reqs' = reqs \cup {r} /\ UNCHANGED last
  /\ UNCHANGED <<contents, sources, links, overlap, issued, revoked>>

\* await axios.get(...), the k-th of the strategy: a rejected request throws
\* out of the strategy; after the last one the text to summarize is built
\* from the response, which throws when the response lacks the fields read.
AxiosGet(r, strategy, k) ==
  /\ r.op = "generateSummary" /\ r.pc = "get" /\ r.strategy = strategy
  /\ Len(r.calls) = k - 1
  /\ \E ok \in BOOLEAN, shaped \in BOOLEAN :
       LET r2 == [r EXCEPT !.external = TRUE,
                           !.calls = Append(r.calls, [name |-> MetadataCalls(strategy)[k],
                                                      ok |-> ok])] IN
       IF ~ok
       THEN Complete(r, [r2 EXCEPT !.out = Failure("FetchFailed"), !.failed = TRUE])
       ELSE IF k < Len(MetadataCalls(strategy))
       THEN shaped /\ Goto(r, r2) /\ UNCHANGED last
       ELSE IF ~shaped
       THEN Complete(r, [r2 EXCEPT !.out = Failure("TypeError"), !.failed = TRUE])
       ELSE Goto(r, [r2 EXCEPT !.pc = "generateContent"]) /\ UNCHANGED last
  /\ UNCHANGED <<contents, sources, links, started, account, produced, overlap, issued, revoked>>

\* const response = await axios.get('https://www.googleapis.com/youtube/v3/videos', ...)
getYouTubeSummaryGet(r) == AxiosGet(r, "getYouTubeSummary", 1)

\* const response = await axios.get(`https://api.twitter.com/2/tweets/${tweetId}`, ...)
getTwitterSummaryGet(r) == AxiosGet(r, "getTwitterSummary", 1)

\* const response = await axios.get(`https://api.github.com/repos/${owner}/${repo}`, ...)
getGitHubSummaryGetRepo(r) == AxiosGet(r, "getGitHubSummary", 1)

\* const readmeResponse = await axios.get(`.../repos/${owner}/${repo}/readme`, ...)
getGitHubSummaryGetReadme(r) == AxiosGet(r, "getGitHubSummary", 2)

\* generateContent called a second time when the first call was rejected.
generateContentRetrying(r) ==
  /\ r.op = "generateSummary" /\ r.pc = "generateContent"
  /\ \E out \in {Failure("GenerationFailed")} \cup {Success(t) : t \in Texts} :
       LET r2 == [r EXCEPT !.calls = Append(r.calls, [name |-> "generateContent",
                                                      ok |-> out.ok])] IN
       IF out.ok \/ Len(r.calls) > Len(MetadataCalls(r.strategy))
       THEN Complete(r, [r2 EXCEPT !.out = out, !.failed = ~out.ok])
       ELSE Goto(r, r2) /\ UNCHANGED last
  /\ UNCHANGED <<contents, sources, links, started, account, produced, overlap, issued, revoked>>

\* const result = await model.generateContent(...); return result.response.text()
generateContent(r) ==
  /\ r.op = "generateSummary" /\ r.pc = "generateContent"
  /\ \E out \in {Failure("GenerationFailed")} \cup {Success(t) : t \in Texts} :
       Complete(r, [r EXCEPT !.out = out, !.failed = ~out.ok,
                             !.calls = Append(r.calls, [name |-> "generateContent",
                                                        ok |-> out.ok])])
  /\ UNCHANGED <<contents, sources, links, started, account, produced, overlap, issued, revoked>>

\* ------------------------------------------------------------- Content queries
\* The documents a filter matches: a key the filter lacks constrains nothing.
Matching(filter) ==
  SelectSeq(contents, LAMBDA c : /\ (filter.userId = Undefined \/ c.userId = filter.userId)
                                 /\ (filter.source = Undefined \/ c.source = filter.source))

\* Content.find(filter).skip(skip).limit(limit).sort({ createdAt: -1 }): the
\* query sorts first, whatever the order of the calls; documents are created
\* in insertion order.
ContentFind(filter, skip, limit) ==
  LET sorted == Reverse(Matching(filter))
      end == IF skip + limit < Len(sorted) THEN skip + limit ELSE Len(sorted)
  IN SubSeq(sorted, skip + 1, end)

\* Content.countDocuments(filter)
ContentCountDocuments(filter) == Len(Matching(filter))

\* ------------------------------------------------------------- addContent
\* JavaScript truthiness of a summary value.
Truthy(s) == s # Undefined /\ s # ""

\* The duplicate check with the owner comparison inverted.
SameLinkAndOtherUser(link, userId) ==
  FindOne(contents, LAMBDA c : c.link = link /\ c.userId # userId, NoDoc)

\* Content.findOne({ link, userId })
SameLinkAndUser(link, userId) ==
  FindOne(contents, LAMBDA c : c.link = link /\ c.userId = userId, NoDoc)

\* The lookup without the link in its filter: the first record with a summary.
AnyLinkWithSummary(link) ==
  FindOne(contents, LAMBDA c : Truthy(c.summary), NoDoc)

\* Content.findOne({ link, summary: { $exists: true, $ne: "" } })
SameLinkWithSummary(link) ==
  FindOne(contents, LAMBDA c : c.link = link /\ Truthy(c.summary), NoDoc)

\* Schema validation run by Content.create.
contentSchema(doc) ==
  /\ doc.link # "" /\ doc.title # ""
  /\ doc.type \in ContentType /\ doc.source \in ContentSource

\* Bodies a client may post to /content/add-content.
ValidBodies ==
  {[NoBody EXCEPT !.link = UrlGitHub, !.type = "article", !.title = "title", !.source = "github"],
   [NoBody EXCEPT !.link = UrlYouTube, !.type = "article", !.title = "title", !.source = "github"],
   [NoBody EXCEPT !.link = UrlGitHub, !.type = "article", !.title = "title", !.source = "facebook"]}

\* The bodies of one link that clients post at the same time.
RaceBodies == {b \in ValidBodies : b.link = UrlGitHub}

\* A body the request validation admits: "repository" is a type of the
\* createContentSchema DTO.
RepositoryBody ==
  [NoBody EXCEPT !.link = UrlGitHub, !.type = "repository", !.title = "title",
                 !.source = "github"]

\* ... a body of a repository, and bodies that lack the link, the type, the
\* title or the source.
AddContentBodies ==
  ValidBodies
  \cup {RepositoryBody}
  \cup {[NoBody EXCEPT !.link = "", !.type = "article", !.title = "title", !.source = "github"],
        [NoBody EXCEPT !.link = UrlGitHub, !.type = "", !.title = "title", !.source = "github"],
        [NoBody EXCEPT !.link = UrlGitHub, !.type = "article", !.title = "", !.source = "github"],
        [NoBody EXCEPT !.link = UrlGitHub, !.type = "article", !.title = "title", !.source = ""]}

\* addContent with a required-field check that leaves the title out.
addContentTitleUnchecked(load, userId, body) ==
  LET r == NewReq("addContent", userId, body,
                  IF body.source # "" THEN "findSource" ELSE "findDup",
                  Pre(load, userId)) IN
  /\ Receive(load)
  /\ IF body.link = "" \/ body.type = ""
     THEN /\ last' = [r EXCEPT !.pc = "done", !.sent = 1, !.status = 400]
          /\ UNCHANGED <<reqs, overlap>>
     ELSE /\ reqs' = reqs \cup {r}
          /\ overlap' = overlap \cup Overlaps(r)
          /\ UNCHANGED last
  /\ UNCHANGED <<contents, sources, links, issued, revoked>>

\* addContent up to its first await: the required-field check.
addContent(load, userId, body) ==
  LET r == NewReq("addContent", userId, body,
                  IF body.source # "" THEN "findSource" ELSE "findDup",
                  Pre(load, userId)) IN
  /\ Receive(load)
  /\ IF body.link = "" \/ body.type = "" \/ body.title = ""
     THEN /\ last' = [r EXCEPT !.pc = "done", !.sent = 1, !.status = 400]
          /\ UNCHANGED <<reqs, overlap>>
     ELSE /\ reqs' = reqs \cup {r}
          /\ overlap' = overlap \cup Overlaps(r)
          /\ UNCHANGED last
  /\ UNCHANGED <<contents, sources, links, issued, revoked>>

\* addContentFindSource with the test of existSource inverted.
addContentFindSourceInverted(r) ==
  /\ r.op = "addContent" /\ r.pc = "findSource"
  /\ LET existSource == FindOne(sources, LAMBDA s : s.name = r.body.source, [name |-> ""]) IN
     Goto(r, [r EXCEPT !.pc = IF existSource.name # "" THEN "serviceFind" ELSE "findDup"])
  /\ UNCHANGED <<contents, sources, links, started, account, produced, last, overlap, issued, revoked>>

\* const existSource = await Source.findOne({ name: source })
addContentFindSource(r) ==
  /\ r.op = "addContent" /\ r.pc = "findSource"
  /\ LET existSource == FindOne(sources, LAMBDA s : s.name = r.body.source, [name |-> ""]) IN
     Goto(r, [r EXCEPT !.pc = IF existSource.name = "" THEN "serviceFind" ELSE "findDup"])
  /\ UNCHANGED <<contents, sources, links, started, account, produced, last, overlap, issued, revoked>>

\* addContentSourceFind returning without creating the source.
addContentSourceFindOnly(r) ==
  /\ r.op = "addContent" /\ r.pc = "serviceFind"
  /\ LET existSource == FindOne(sources, LAMBDA s : s.name = r.body.source, [name |-> ""]) IN
     IF existSource.name # ""
     THEN Complete(r, [r EXCEPT !.status = errorHandlerMiddleware("Error"), !.via = "errorHandlerMiddleware", !.failed = TRUE,
                                !.message = "Content source already exists"])
     ELSE Goto(r, [r EXCEPT !.pc = "findDup"]) /\ UNCHANGED last
  /\ UNCHANGED <<contents, sources, links, started, account, produced, overlap, issued, revoked>>

\* addContentSource: const existSource = await Source.findOne({ name: source });
\* an existing source throws, and addContent passes the error to next().
addContentSourceFind(r) ==
  /\ r.op = "addContent" /\ r.pc = "serviceFind"
  /\ LET existSource == FindOne(sources, LAMBDA s : s.name = r.body.source, [name |-> ""]) IN
     IF existSource.name # ""
     THEN Complete(r, [r EXCEPT !.status = errorHandlerMiddleware("Error"), !.via = "errorHandlerMiddleware", !.failed = TRUE,
                                !.message = "Content source already exists"])
     ELSE Goto(r, [r EXCEPT !.pc = "serviceCreate"]) /\ UNCHANGED last
  /\ UNCHANGED <<contents, sources, links, started, account, produced, overlap, issued, revoked>>

\* addContentSourceCreate whose Source.create stores nothing.
addContentSourceCreateDropped(r) ==
  /\ r.op = "addContent" /\ r.pc = "serviceCreate"
  /\ Goto(r, [r EXCEPT !.pc = "findDup"])
  /\ UNCHANGED <<contents, sources, links, started, account, produced, last, overlap, issued, revoked>>

\* addContentSource: await Source.create({ name: source })
addContentSourceCreate(r) ==
  /\ r.op = "addContent" /\ r.pc = "serviceCreate"
  /\ sources' = Append(sources, [name |-> r.body.source])
  /\ Goto(r, [r EXCEPT !.pc = "findDup"])
  /\ UNCHANGED <<contents, links, started, account, produced, last, overlap, issued, revoked>>

\* addContentFindDup answering 409 without the existing record as data.
addContentFindDupNoData(r) ==
  /\ r.op = "addContent" /\ r.pc = "findDup"
  /\ LET existingContentForUser == SameLinkAndUser(r.body.link, r.userId) IN
     IF existingContentForUser # NoDoc
     THEN Complete(r, [r EXCEPT !.status = 409])
     ELSE Goto(r, [r EXCEPT !.pc = "findSummary"]) /\ UNCHANGED last
  /\ UNCHANGED <<contents, sources, links, started, account, produced, overlap, issued, revoked>>

\* const existingContentForUser = await Content.findOne({ link, userId })
addContentFindDup(r) ==
  /\ r.op = "addContent" /\ r.pc = "findDup"
  /\ LET existingContentForUser == SameLinkAndUser(r.body.link, r.userId) IN
     IF existingContentForUser # NoDoc
     THEN Complete(r, [r EXCEPT !.status = 409, !.doc = existingContentForUser])
     ELSE Goto(r, [r EXCEPT !.pc = "findSummary"]) /\ UNCHANGED last
  /\ UNCHANGED <<contents, sources, links, started, account, produced, overlap, issued, revoked>>

\* The non-empty summaries the records of coll with this link carry.
ReusableSummaries(coll, link) ==
  {c.summary : c \in {d \in Range(coll) : d.link = link /\ Truthy(d.summary)}}

\* const existingContentWithSummary = await Content.findOne({ link, summary: ... })
addContentFindSummary(r) ==
  /\ r.op = "addContent" /\ r.pc = "findSummary"
  /\ Goto(r, [r EXCEPT !.pc = "create", !.read = ReusableSummaries(contents, r.body.link),
                       !.found = SameLinkWithSummary(r.body.link).summary])
  /\ UNCHANGED <<contents, sources, links, started, account, produced, last, overlap, issued, revoked>>

\* addContentCreate without the reuse branch: a summary is always generated.
addContentCreateAlwaysGenerating(r) ==
  /\ r.op = "addContent" /\ r.pc = "create"
  /\ LET content == [NoDoc EXCEPT !.id = r.n, !.link = r.body.link, !.type = r.body.type,
                                  !.title = r.body.title, !.userId = r.userId,
                                  !.source = r.body.source] IN
     IF ~contentSchema(content)
     THEN /\ Complete(r, [r EXCEPT !.status = errorHandlerMiddleware("ValidationError"), !.via = "errorHandlerMiddleware", !.message = "ValidationError",
                                   !.failed = TRUE])
          /\ UNCHANGED contents
     ELSE /\ contents' = Append(contents, content)
          /\ IF r.body.source # ""
             THEN Goto(r, [r EXCEPT !.doc = content, !.pc = "generate"]) /\ UNCHANGED last
             ELSE Complete(r, [r EXCEPT !.doc = content, !.status = 200])
  /\ UNCHANGED <<sources, links, started, account, produced, overlap, issued, revoked>>

\* const content = await Content.create({ link, type, title, tags, userId, source })
addContentCreate(r) ==
  /\ r.op = "addContent" /\ r.pc = "create"
  /\ LET content == [NoDoc EXCEPT !.id = r.n, !.link = r.body.link, !.type = r.body.type,
                                  !.title = r.body.title, !.userId = r.userId,
                                  !.source = r.body.source] IN
     IF ~contentSchema(content)
     THEN /\ Complete(r, [r EXCEPT !.status = errorHandlerMiddleware("ValidationError"), !.via = "errorHandlerMiddleware", !.message = "ValidationError",
                                   !.failed = TRUE])
          /\ UNCHANGED contents
     ELSE /\ contents' = Append(contents, content)
          /\ IF Truthy(r.found)
             THEN Goto(r, [r EXCEPT !.doc = content, !.pc = "saveReused"]) /\ UNCHANGED last
             ELSE IF r.body.source # ""
             THEN Goto(r, [r EXCEPT !.doc = content, !.pc = "generate"]) /\ UNCHANGED last
             ELSE Complete(r, [r EXCEPT !.doc = content, !.status = 200])
  /\ UNCHANGED <<sources, links, started, account, produced, overlap, issued, revoked>>

\* A save that sets the summary on every document with the link of doc.
SavedForLink(coll, doc) ==
  [i \in 1..Len(coll) |-> IF coll[i].link = doc.link
                           THEN [coll[i] EXCEPT !.summary = doc.summary] ELSE coll[i]]

\* document.save() of an existing document: $set of the modified path, and a
\* DocumentNotFoundError when no document has that _id any more.
Saved(coll, doc) == [i \in 1..Len(coll) |-> IF coll[i].id = doc.id THEN doc ELSE coll[i]]

Exists(coll, id) == \E c \in Range(coll) : c.id = id

\* addContentSaveReused without the save: the summary is set on the returned
\* document only.
addContentSaveReusedUnsaved(r) ==
  /\ r.op = "addContent" /\ r.pc = "saveReused"
  /\ LET content == [r.doc EXCEPT !.summary = r.found] IN
     Complete(r, [r EXCEPT !.doc = content, !.status = 200])
  /\ UNCHANGED <<contents, sources, links, started, account, produced, overlap, issued, revoked>>

\* content.summary = existingContentWithSummary.summary; await content.save()
addContentSaveReused(r) ==
  /\ r.op = "addContent" /\ r.pc = "saveReused"
  /\ LET content == [r.doc EXCEPT !.summary = r.found] IN
     IF Exists(contents, content.id)
     THEN /\ contents' = Saved(contents, content)
          /\ Complete(r, [r EXCEPT !.doc = content, !.status = 200])
     ELSE /\ UNCHANGED contents
          /\ Complete(r, [r EXCEPT !.doc = content, !.failed = TRUE,
                                   !.status = errorHandlerMiddleware("DocumentNotFoundError"), !.via = "errorHandlerMiddleware", !.message = "DocumentNotFoundError"])
  /\ UNCHANGED <<sources, links, started, account, produced, overlap, issued, revoked>>

\* generateSummary returned text to a create of link (kept for the
\* properties only; the empty text is not a summary).
Returned(pairs, link, text) == IF Truthy(text) THEN pairs \cup {<<link, text>>} ELSE pairs

\* addContentGenerate without its try/catch: a provider error reaches next().
addContentGenerateUncaught(r) ==
  /\ r.op = "addContent" /\ r.pc = "generate"
  /\ \E out \in generateSummary(r.body.source, r.body.link) :
       IF out.ok
       THEN /\ Goto(r, [r EXCEPT !.pc = "saveGenerated", !.invoked = TRUE,
                                 !.doc = [r.doc EXCEPT !.summary = out.text]])
            /\ produced' = Returned(produced, r.body.link, out.text)
            /\ UNCHANGED last
       ELSE /\ Complete(r, [r EXCEPT !.status = errorHandlerMiddleware("Error"), !.via = "errorHandlerMiddleware", !.message = "Error",
                                     !.invoked = TRUE, !.failed = TRUE])
            /\ UNCHANGED produced
  /\ UNCHANGED <<contents, sources, links, started, account, overlap, issued, revoked>>

\* const summary = await generateSummary(source, link), inside try/catch
addContentGenerate(r) ==
  /\ r.op = "addContent" /\ r.pc = "generate"
  /\ \E out \in generateSummary(r.body.source, r.body.link) :
       IF out.ok
       THEN /\ Goto(r, [r EXCEPT !.pc = "saveGenerated", !.invoked = TRUE,
                                 !.doc = [r.doc EXCEPT !.summary = out.text]])
            /\ produced' = Returned(produced, r.body.link, out.text)
            /\ UNCHANGED last
       ELSE /\ Complete(r, [r EXCEPT !.status = 200, !.invoked = TRUE, !.failed = TRUE])
            /\ UNCHANGED produced
  /\ UNCHANGED <<contents, sources, links, started, account, overlap, issued, revoked>>

\* content.summary = summary; await content.save(), inside the same try/catch
addContentSaveGenerated(r) ==
  /\ r.op = "addContent" /\ r.pc = "saveGenerated"
  /\ contents' = IF Exists(contents, r.doc.id) THEN Saved(contents, r.doc) ELSE contents
  /\ Complete(r, [r EXCEPT !.status = 200])
  /\ UNCHANGED <<sources, links, started, account, produced, overlap, issued, revoked>>

\* ------------------------------------------------------------- deleteContent
\* Model.findByIdAndDelete(id) is findOneAndDelete({ _id: id }); the argument
\* { _id: contentId, userId } is cast to an ObjectId, which takes its _id and
\* drops every other key.
castObjectId(arg) == arg.id

\* deleteContent up to its await.
deleteContent(load, userId, contentId) ==
  /\ Receive(load)
  /\ reqs' = reqs \cup {NewReq("deleteContent", userId,
                               [NoBody EXCEPT !.contentId = contentId], "delete",
                               Pre(load, userId))}
  /\ UNCHANGED <<contents, sources, links, last, overlap, issued, revoked>>

\* await Content.findByIdAndDelete({ _id: contentId, userId })
deleteContentDelete(r) ==
  /\ r.op = "deleteContent" /\ r.pc = "delete"
  /\ LET id == castObjectId([id |-> r.body.contentId, userId |-> r.userId]) IN
     IF id = BadId
     THEN /\ Complete(r, [r EXCEPT !.status = 400, !.failed = TRUE])
          /\ UNCHANGED contents
     ELSE /\ contents' = RemoveFirst(contents, LAMBDA c : c.id = id)
          /\ Complete(r, [r EXCEPT !.status = 200,
                                   !.doc = FindOne(contents, LAMBDA c : c.id = id, NoDoc)])
  /\ UNCHANGED <<sources, links, started, account, produced, overlap, issued, revoked>>

\* ------------------------------------------------------------- getAllContent
\* let pageNumber = parseInt(req.query?.pageNumber) || 1; let pageSize = ... || 10
AllContentPaging(query) ==
  [pageNumber |-> OrDefault(parseInt(query.pageNumber), 1),
   pageSize |-> OrDefault(parseInt(query.pageSize), 10)]

\* AllContentFilter whose source branch leaves the owner out.
AllContentFilterSourceOnly(userId, query) ==
  IF query.source # "" THEN [userId |-> Undefined, source |-> query.source]
  ELSE [userId |-> userId, source |-> Undefined]

\* let filter = req.query?.source ? { userId, source: req.query.source } : { userId }
AllContentFilter(userId, query) ==
  IF query.source # "" THEN [userId |-> userId, source |-> query.source]
  ELSE [userId |-> userId, source |-> Undefined]

\* getAllContent up to its first await: paging and filter from the query.
getAllContent(load, userId, query) ==
  /\ Receive(load)
  /\ reqs' = reqs \cup {[NewReq("getAllContent", userId, [NoBody EXCEPT !.query = query],
                                "find", Pre(load, userId))
                           EXCEPT !.paging = AllContentPaging(query)]}
  /\ UNCHANGED <<contents, sources, links, last, overlap, issued, revoked>>

\* getAllContentFind with skip = pageNumber * pageSize.
getAllContentFindSkipOff(r) ==
  /\ r.op = "getAllContent" /\ r.pc = "find"
  /\ LET skip == r.paging.pageNumber * r.paging.pageSize
         limit == r.paging.pageSize
     IN Goto(r, [r EXCEPT !.pc = "count",
                          !.page = ContentFind(AllContentFilter(r.userId, r.body.query),
                                               skip, limit)])
  /\ UNCHANGED <<contents, sources, links, started, account, produced, last, overlap, issued, revoked>>

\* const fetchAllContent = await Content.find(filter)...skip(skip).limit(limit).sort(...)
getAllContentFind(r) ==
  /\ r.op = "getAllContent" /\ r.pc = "find"
  /\ LET skip == (r.paging.pageNumber - 1) * r.paging.pageSize
         limit == r.paging.pageSize
     IN Goto(r, [r EXCEPT !.pc = "count",
                          !.page = ContentFind(AllContentFilter(r.userId, r.body.query),
                                               skip, limit)])
  /\ UNCHANGED <<contents, sources, links, started, account, produced, last, overlap, issued, revoked>>

\* !found with an empty array taken for a missing result.
NotFoundWhenEmpty(found) == found = <<>>

\* !found for the result of Model.find(): an array, which is truthy also
\* when it is empty.
NotFound(found) == FALSE

\* const contentCount = await Content.countDocuments(filter); then
\* if (!fetchAllContent) sendResponse(...), which does not return, and the
\* sendResponse of the fetched page.
getAllContentCount(r) ==
  /\ r.op = "getAllContent" /\ r.pc = "count"
  /\ Complete(r, [r EXCEPT !.status = 200,
                           !.message = IF NotFound(r.page) THEN "Content not found"
                                       ELSE "Content fetched successfully",
                           !.sent = IF NotFound(r.page) THEN 1 ELSE 0,
                           !.count = ContentCountDocuments(AllContentFilter(r.userId,
                                                                            r.body.query))])
  /\ UNCHANGED <<contents, sources, links, started, account, produced, overlap, issued, revoked>>

\* ------------------------------------------------------------- getAllSources
\* getAllSources up to its await.
getAllSources(load) ==
  /\ Receive(load)
  /\ reqs' = reqs \cup {NewReq("getAllSources", "", NoBody, "find", Pre(load, ""))}
  /\ UNCHANGED <<contents, sources, links, last, overlap, issued, revoked>>

\* const sources = await Source.find(); an empty result is answered 404.
getAllSourcesFind(r) ==
  /\ r.op = "getAllSources" /\ r.pc = "find"
  /\ IF NotFound(sources) \/ Len(sources) = 0
     THEN Complete(r, [r EXCEPT !.status = 404, !.message = "No sources found"])
     ELSE Complete(r, [r EXCEPT !.status = 200, !.count = Len(sources),
                                !.message = "Sources fetched successfully"])
  /\ UNCHANGED <<contents, sources, links, started, account, produced, overlap, issued, revoked>>

\* ------------------------------------------------------------- getContentSummary
\* The fields of a Content document the summary view carries; the view has
\* neither _id nor userId.
SummaryView(content) == [content EXCEPT !.id = NoId, !.userId = ""]

\* getContentSummary up to its await.  The route has no AuthMiddleware: the
\* requester (an owner, another user, or nobody) is not known to the handler.
getContentSummary(load, requester, contentId) ==
  /\ Receive(load)
  /\ reqs' = reqs \cup {NewReq("getContentSummary", requester,
                               [NoBody EXCEPT !.contentId = contentId], "find",
                               Pre(load, requester))}
  /\ UNCHANGED <<contents, sources, links, last, overlap, issued, revoked>>

\* getContentSummaryFind looking the record up among those of the requester.
getContentSummaryFindOwnOnly(r) ==
  /\ r.op = "getContentSummary" /\ r.pc = "find"
  /\ LET content == FindOne(contents, LAMBDA c : c.id = r.body.contentId
                                                  /\ c.userId = r.userId, NoDoc) IN
     IF r.body.contentId = BadId
     THEN Complete(r, [r EXCEPT !.status = errorHandlerMiddleware("CastError"), !.via = "errorHandlerMiddleware",
                                !.message = "CastError", !.failed = TRUE])
     ELSE IF content = NoDoc
     THEN Complete(r, [r EXCEPT !.status = 404, !.message = "Content not found"])
     ELSE Complete(r, [r EXCEPT !.status = 200, !.doc = SummaryView(content),
                                !.message = "Content summary fetched successfully"])
  /\ UNCHANGED <<contents, sources, links, started, account, produced, overlap, issued, revoked>>

\* const content = await Content.findById(contentId)
getContentSummaryFind(r) ==
  /\ r.op = "getContentSummary" /\ r.pc = "find"
  /\ LET content == FindOne(contents, LAMBDA c : c.id = r.body.contentId, NoDoc) IN
     IF r.body.contentId = BadId
     THEN Complete(r, [r EXCEPT !.status = errorHandlerMiddleware("CastError"), !.via = "errorHandlerMiddleware",
                                !.message = "CastError", !.failed = TRUE])
     ELSE IF content = NoDoc
     THEN Complete(r, [r EXCEPT !.status = 404, !.message = "Content not found"])
     ELSE Complete(r, [r EXCEPT !.status = 200, !.doc = SummaryView(content),
                                !.message = "Content summary fetched successfully"])
  /\ UNCHANGED <<contents, sources, links, started, account, produced, overlap, issued, revoked>>

\* ------------------------------------------------------------- generateHash
\* The alphabet of Buffer.toString("base64").
Base64Alphabet ==
  <<"A", "B", "C", "D", "E", "F", "G", "H", "I", "J", "K", "L", "M", "N", "O", "P",
    "Q", "R", "S", "T", "U", "V", "W", "X", "Y", "Z", "a", "b", "c", "d", "e", "f",
    "g", "h", "i", "j", "k", "l", "m", "n", "o", "p", "q", "r", "s", "t", "u", "v",
    "w", "x", "y", "z", "0", "1", "2", "3", "4", "5", "6", "7", "8", "9", "+", "/">>

\* Buffer.toString("base64"): three bytes give four characters; one or two
\* bytes left over give two or three characters and "=" up to four.
RECURSIVE toStringBase64(_)
toStringBase64(bytes) ==
  IF Len(bytes) = 0 THEN <<>>
  ELSE IF Len(bytes) = 1
  THEN <<Base64Alphabet[(bytes[1] \div 4) + 1],
         Base64Alphabet[((bytes[1] % 4) * 16) + 1], "=", "=">>
  ELSE IF Len(bytes) = 2
  THEN <<Base64Alphabet[(bytes[1] \div 4) + 1],
         Base64Alphabet[((bytes[1] % 4) * 16) + (bytes[2] \div 16) + 1],
         Base64Alphabet[((bytes[2] % 16) * 4) + 1], "=">>
  ELSE <<Base64Alphabet[(bytes[1] \div 4) + 1],
         Base64Alphabet[((bytes[1] % 4) * 16) + (bytes[2] \div 16) + 1],
         Base64Alphabet[((bytes[2] % 16) * 4) + (bytes[3] \div 64) + 1],
         Base64Alphabet[(bytes[3] % 64) + 1]>>
       \o toStringBase64(SubSeq(bytes, 4, Len(bytes)))

\* String.slice(0, length)
slice(str, length) == SubSeq(str, 1, IF length < Len(str) THEN length ELSE Len(str))

\* String.replace(/from/g, to) for one character; to = "" removes it.
replace(str, from, to) ==
  IF to = "" THEN SelectSeq(str, LAMBDA c : c # from)
  ELSE [i \in 1..Len(str) |-> IF str[i] = from THEN to ELSE str[i]]

\* Values a byte of randomBytes takes in the model: all bits clear, and the
\* byte 0xFB, whose sextets are those of "+" and "/".
ByteValues == {0, 251}

\* randomBytes(size): every sequence of size bytes.
randomBytes(size) == [1..size -> ByteValues]

\* Math.ceil((length * 3) / 4)
ByteCount(length) == (length * 3 + 3) \div 4

\* generateHashOf without the replacement of "/".
generateHashOfSlashKept(length, bytes) ==
  replace(replace(slice(toStringBase64(bytes), length), "+", "-"), "=", "")

\* generateHash(length) when randomBytes returns bytes:
\* .toString("base64").slice(0, length).replace(+ by -).replace(/ by _).replace(= by nothing)
generateHashOf(length, bytes) ==
  replace(replace(replace(slice(toStringBase64(bytes), length), "+", "-"), "/", "_"), "=", "")

\* One call of generateHash in a behaviour.
Once == [limit |-> 1, max |-> 1]

\* A call of generateHash(length).
generateHashCall(load, length) ==
  /\ Receive(load)
  /\ \E bytes \in randomBytes(ByteCount(length)) :
       last' = [NewReq("generateHash", "", NoBody, "done", Pre(load, ""))
                  EXCEPT !.length = length, !.text = generateHashOf(length, bytes),
                         !.sent = 1]
  /\ UNCHANGED <<contents, sources, links, reqs, overlap, issued, revoked>>

\* ------------------------------------------------------------- link handlers
\* generateHash(length): randomBytes -> base64 -> slice(0, length); the tokens
\* of one length, one per value of the random bytes.
generateHash(length) == {<<length, k>> : k \in 1..NumTokens}

\* The username the userId reference is populated with.
UserName(userId) == IF userId = "u1" THEN "alice" ELSE "bob"

\* Link.create(createLink): the cast of contentId, then the unique index on hash.
LinkCreateError(doc) ==
  IF doc.contentId = BadId THEN "ValidationError"
  ELSE IF \E l \in Range(links) : l.hash = doc.hash THEN "DuplicateKey"
  ELSE ""

\* createLink up to its await: the contentId check and generateHash(10).
createLink(load, userId, contentId) ==
  /\ Receive(load)
  /\ \E hash \in generateHash(10) :
       LET r == [NewReq("createLink", userId, [NoBody EXCEPT !.contentId = contentId],
                        "create", Pre(load, userId)) EXCEPT !.hash = hash] IN
       IF contentId = NoId
       THEN last' = [r EXCEPT !.pc = "done", !.sent = 1, !.status = 400, !.hash = NoHash]
            /\ UNCHANGED reqs
       ELSE reqs' = reqs \cup {r} /\ UNCHANGED last
  /\ UNCHANGED <<contents, sources, links, overlap, issued, revoked>>

\* createLinkCreate answering the owner's existing link of the content item,
\* when there is one, instead of creating a link.
createLinkCreateReusing(r) ==
  /\ r.op = "createLink" /\ r.pc = "create"
  /\ LET doc == [hash |-> r.hash, userId |-> r.userId, contentId |-> r.body.contentId]
         err == LinkCreateError(doc)
         existingLink == FindOne(links, LAMBDA l : l.contentId = r.body.contentId
                                                   /\ l.userId = r.userId, NoLinkDoc) IN
     IF err # ""
     THEN /\ Complete(r, [r EXCEPT !.status = errorHandlerMiddleware(err), !.via = "errorHandlerMiddleware", !.message = err, !.failed = TRUE])
          /\ UNCHANGED links
     ELSE IF existingLink # NoLinkDoc
     THEN /\ Complete(r, [r EXCEPT !.status = 201, !.link = existingLink])
          /\ UNCHANGED links
     ELSE /\ links' = Append(links, doc)
          /\ Complete(r, [r EXCEPT !.status = 201, !.link = doc])
  /\ UNCHANGED <<contents, sources, started, account, produced, overlap, issued, revoked>>

\* const link = await Link.create({ hash, userId, contentId })
createLinkCreate(r) ==
  /\ r.op = "createLink" /\ r.pc = "create"
  /\ LET doc == [hash |-> r.hash, userId |-> r.userId, contentId |-> r.body.contentId]
         err == LinkCreateError(doc) IN
     IF err # ""
     THEN /\ Complete(r, [r EXCEPT !.status = errorHandlerMiddleware(err), !.via = "errorHandlerMiddleware", !.message = err, !.failed = TRUE])
          /\ UNCHANGED links
     ELSE /\ links' = Append(links, doc)
          /\ Complete(r, [r EXCEPT !.status = 201, !.link = doc])
  /\ UNCHANGED <<contents, sources, started, account, produced, overlap, issued, revoked>>

\* The lookup with $exists: true: the owner's first item-level link.
BrainLinkOfWithContent(userId) ==
  FindOne(links, LAMBDA l : l.userId = userId /\ l.contentId # NoId, NoLinkDoc)

\* Link.findOne({ userId, contentId: { $exists: false } })
BrainLinkOf(userId) ==
  FindOne(links, LAMBDA l : l.userId = userId /\ l.contentId = NoId, NoLinkDoc)

\* createBrainLink up to its first await: the shareBrain branch.
createBrainLink(load, userId, shareBrain) ==
  LET r == NewReq("createBrainLink", userId, [NoBody EXCEPT !.shareBrain = shareBrain],
                  IF shareBrain THEN "find" ELSE "delete", Pre(load, userId)) IN
  /\ Receive(load)
  /\ reqs' = reqs \cup {r}
  /\ overlap' = overlap \cup Overlaps(r)
  /\ revoked' = IF shareBrain THEN [revoked EXCEPT ![userId] = {}] ELSE revoked
  /\ UNCHANGED <<contents, sources, links, last, issued>>

\* createBrainLinkFind without the return after answering an existing link:
\* the handler goes on to create a link.
createBrainLinkFindNoReturn(r) ==
  /\ r.op = "createBrainLink" /\ r.pc = "find"
  /\ \E hash \in generateHash(20) : Goto(r, [r EXCEPT !.pc = "create", !.hash = hash])
  /\ UNCHANGED <<contents, sources, links, started, account, produced, last, overlap, issued, revoked>>

\* const existLink = await Link.findOne(...); an existing link is answered,
\* otherwise generateHash(20) draws the token of the link to create.
createBrainLinkFind(r) ==
  /\ r.op = "createBrainLink" /\ r.pc = "find"
  /\ LET existLink == BrainLinkOf(r.userId) IN
     IF existLink # NoLinkDoc
     THEN /\ Complete(r, [r EXCEPT !.status = 200, !.link = existLink])
          /\ issued' = [issued EXCEPT ![r.userId] = @ \cup {existLink.hash}]
     ELSE /\ \E hash \in generateHash(20) : Goto(r, [r EXCEPT !.pc = "create", !.hash = hash])
          /\ UNCHANGED <<last, issued>>
  /\ UNCHANGED <<contents, sources, links, started, account, produced, overlap, revoked>>

\* const link = await Link.create({ hash, userId })
createBrainLinkCreate(r) ==
  /\ r.op = "createBrainLink" /\ r.pc = "create"
  /\ LET doc == [hash |-> r.hash, userId |-> r.userId, contentId |-> NoId]
         err == LinkCreateError(doc) IN
     IF err # ""
     THEN /\ Complete(r, [r EXCEPT !.status = errorHandlerMiddleware(err), !.via = "errorHandlerMiddleware", !.message = err, !.failed = TRUE])
          /\ UNCHANGED <<links, issued>>
     ELSE /\ links' = Append(links, doc)
          /\ Complete(r, [r EXCEPT !.status = 201, !.link = doc])
          /\ issued' = [issued EXCEPT ![r.userId] = @ \cup {doc.hash}]
  /\ UNCHANGED <<contents, sources, started, account, produced, overlap, revoked>>

\* An enableShare of userId is running (it started before the disableShare
\* that is completing, so "no enableShare starts after it" says nothing yet).
EnableRunning(userId) ==
  \E q \in reqs : q.op = "createBrainLink" /\ q.userId = userId /\ q.body.shareBrain

\* createBrainLinkDelete with the filter { userId }: the owner's first link
\* of any kind is removed.
createBrainLinkDeleteAnyKind(r) ==
  /\ r.op = "createBrainLink" /\ r.pc = "delete"
  /\ links' = RemoveFirst(links, LAMBDA l : l.userId = r.userId)
  /\ Complete(r, [r EXCEPT !.status = 200, !.link = BrainLinkOf(r.userId)])
  /\ revoked' = IF EnableRunning(r.userId) THEN revoked
                ELSE [revoked EXCEPT ![r.userId] = @ \cup issued[r.userId]]
  /\ issued' = [issued EXCEPT ![r.userId] = {}]
  /\ UNCHANGED <<contents, sources, started, account, produced, overlap>>

\* await Link.findOneAndDelete({ userId, contentId: { $exists: false } })
createBrainLinkDelete(r) ==
  /\ r.op = "createBrainLink" /\ r.pc = "delete"
  /\ links' = RemoveFirst(links, LAMBDA l : l.userId = r.userId /\ l.contentId = NoId)
  /\ Complete(r, [r EXCEPT !.status = 200, !.link = BrainLinkOf(r.userId)])
  /\ revoked' = IF EnableRunning(r.userId) THEN revoked
                ELSE [revoked EXCEPT ![r.userId] = @ \cup issued[r.userId]]
  /\ issued' = [issued EXCEPT ![r.userId] = {}]
  /\ UNCHANGED <<contents, sources, started, account, produced, overlap>>

DefaultPageNumber == 1
DefaultPageSize == 10

\* getBrainLink: pageNumber = parseInt(req.query?.pageNumber) || 1, and pageSize.
BrainPaging(query) ==
  [pageNumber |-> OrDefault(parseInt(query.pageNumber), DefaultPageNumber),
   pageSize |-> OrDefault(parseInt(query.pageSize), DefaultPageSize)]

\* The filter { userId } or { userId, source: req.query.source }.
PageFilter(userId, source) ==
  IF source # "" THEN [userId |-> userId, source |-> source]
  ELSE [userId |-> userId, source |-> Undefined]

\* FindPage without the skip.
FindPageNoSkip(userId, query) ==
  ContentFind(PageFilter(userId, query.source), 0, BrainPaging(query).pageSize)

\* Content.find(filter).skip(skip).limit(limit).sort({ createdAt: -1 })
FindPage(userId, query) ==
  LET pageNumber == BrainPaging(query).pageNumber
      pageSize == BrainPaging(query).pageSize
      skip == (pageNumber - 1) * pageSize
      limit == pageSize
  IN ContentFind(PageFilter(userId, query.source), skip, limit)

\* Content.countDocuments(filter)
CountDocuments(userId, query) == ContentCountDocuments(PageFilter(userId, query.source))

\* getBrainLink up to its first await.
getBrainLink(load, hash, query) ==
  /\ Receive(load)
  /\ reqs' = reqs \cup {NewReq("getBrainLink", "",
                               [NoBody EXCEPT !.hash = hash, !.query = query],
                               "findLink", Pre(load, ""))}
  /\ UNCHANGED <<contents, sources, links, last, overlap, issued, revoked>>

\* const link = await Link.findOne({ hash }).populate("userId", "username")
getBrainLinkFindLink(r) ==
  /\ r.op = "getBrainLink" /\ r.pc = "findLink"
  /\ LET link == FindOne(links, LAMBDA l : l.hash = r.body.hash, NoLinkDoc) IN
     IF link = NoLinkDoc
     THEN Complete(r, [r EXCEPT !.status = 411, !.message = "Sorry Wrong Url!!!"])
     ELSE /\ Goto(r, [r EXCEPT !.pc = "findContent", !.link = link,
                               !.username = UserName(link.userId)])
          /\ UNCHANGED last
  /\ UNCHANGED <<contents, sources, links, started, account, produced, overlap, issued, revoked>>

\* const content = await Content.find(filter)...
getBrainLinkFindContent(r) ==
  /\ r.op = "getBrainLink" /\ r.pc = "findContent"
  /\ Goto(r, [r EXCEPT !.pc = "count", !.paging = BrainPaging(r.body.query),
                       !.page = FindPage(r.link.userId, r.body.query)])
  /\ UNCHANGED <<contents, sources, links, started, account, produced, last, overlap, issued, revoked>>

\* const contentCount = await Content.countDocuments(filter)
getBrainLinkCount(r) ==
  /\ r.op = "getBrainLink" /\ r.pc = "count"
  /\ Complete(r, [r EXCEPT !.status = 200,
                           !.count = CountDocuments(r.link.userId, r.body.query)])
  /\ UNCHANGED <<contents, sources, links, started, account, produced, overlap, issued, revoked>>

\* `${process.env.FRONTEND_BASE_URL}/shared-summary/${hash}`
SummaryLinkUrl(hash) == <<"shared-summary", hash>>

\* createSummaryLink up to its first await: the contentId check.
createSummaryLink(load, userId, contentId) ==
  LET r == NewReq("createSummaryLink", userId, [NoBody EXCEPT !.contentId = contentId],
                  "find", Pre(load, userId)) IN
  /\ Receive(load)
  /\ IF contentId = NoId
     THEN last' = [r EXCEPT !.pc = "done", !.sent = 1, !.status = 400] /\ UNCHANGED reqs
     ELSE reqs' = reqs \cup {r} /\ UNCHANGED last
  /\ UNCHANGED <<contents, sources, links, overlap, issued, revoked>>

\* createSummaryLinkFind that never answers an existing link.
createSummaryLinkFindNoReuse(r) ==
  /\ r.op = "createSummaryLink" /\ r.pc = "find"
  /\ IF r.body.contentId = BadId
     THEN Complete(r, [r EXCEPT !.status = errorHandlerMiddleware("CastError"), !.via = "errorHandlerMiddleware", !.message = "CastError",
                                !.failed = TRUE])
     ELSE /\ \E hash \in generateHash(10) : Goto(r, [r EXCEPT !.pc = "create", !.hash = hash])
          /\ UNCHANGED last
  /\ UNCHANGED <<contents, sources, links, started, account, produced, overlap, issued, revoked>>

\* const existingLink = await Link.findOne({ contentId, userId: req.userId })
createSummaryLinkFind(r) ==
  /\ r.op = "createSummaryLink" /\ r.pc = "find"
  /\ LET existingLink == FindOne(links, LAMBDA l : l.contentId = r.body.contentId
                                                   /\ l.userId = r.userId, NoLinkDoc) IN
     IF r.body.contentId = BadId
     THEN Complete(r, [r EXCEPT !.status = errorHandlerMiddleware("CastError"), !.via = "errorHandlerMiddleware", !.message = "CastError",
                                !.failed = TRUE])
     ELSE IF existingLink # NoLinkDoc
     THEN Complete(r, [r EXCEPT !.status = 200, !.link = existingLink])
     ELSE /\ \E hash \in generateHash(10) : Goto(r, [r EXCEPT !.pc = "create", !.hash = hash])
          /\ UNCHANGED last
  /\ UNCHANGED <<contents, sources, links, started, account, produced, overlap, issued, revoked>>

\* const link = await Link.create({ hash, userId, contentId })
createSummaryLinkCreate(r) ==
  /\ r.op = "createSummaryLink" /\ r.pc = "create"
  /\ LET doc == [hash |-> r.hash, userId |-> r.userId, contentId |-> r.body.contentId]
         err == LinkCreateError(doc) IN
     IF err # ""
     THEN /\ Complete(r, [r EXCEPT !.status = errorHandlerMiddleware(err), !.via = "errorHandlerMiddleware", !.message = err, !.failed = TRUE])
          /\ UNCHANGED links
     ELSE /\ links' = Append(links, doc)
          /\ Complete(r, [r EXCEPT !.status = 201, !.link = doc])
  /\ UNCHANGED <<contents, sources, started, account, produced, overlap, issued, revoked>>

\* getSummaryLink up to its first await.
getSummaryLink(load, hash) ==
  /\ Receive(load)
  /\ reqs' = reqs \cup {NewReq("getSummaryLink", "", [NoBody EXCEPT !.hash = hash],
                               "findLink", Pre(load, ""))}
  /\ UNCHANGED <<contents, sources, links, last, overlap, issued, revoked>>

\* getSummaryLinkFindLink without the contentId check.
getSummaryLinkFindLinkUnchecked(r) ==
  /\ r.op = "getSummaryLink" /\ r.pc = "findLink"
  /\ LET link == FindOne(links, LAMBDA l : l.hash = r.body.hash, NoLinkDoc) IN
     IF link = NoLinkDoc
     THEN Complete(r, [r EXCEPT !.status = 411, !.message = "Sorry Wrong Url!!!"])
     ELSE Goto(r, [r EXCEPT !.pc = "findContent", !.link = link]) /\ UNCHANGED last
  /\ UNCHANGED <<contents, sources, links, started, account, produced, overlap, issued, revoked>>

\* const link = await Link.findOne({ hash }), then the contentId check
getSummaryLinkFindLink(r) ==
  /\ r.op = "getSummaryLink" /\ r.pc = "findLink"
  /\ LET link == FindOne(links, LAMBDA l : l.hash = r.body.hash, NoLinkDoc) IN
     IF link = NoLinkDoc
     THEN Complete(r, [r EXCEPT !.status = 411, !.message = "Sorry Wrong Url!!!"])
     ELSE IF link.contentId = NoId
     THEN Complete(r, [r EXCEPT !.status = 411, !.link = link,
                                !.message = "This link does not point to a summary"])
     ELSE Goto(r, [r EXCEPT !.pc = "findContent", !.link = link]) /\ UNCHANGED last
  /\ UNCHANGED <<contents, sources, links, started, account, produced, overlap, issued, revoked>>

\* getSummaryLinkFindContent looking the content up by the owner of the link.
getSummaryLinkFindContentByOwner(r) ==
  /\ r.op = "getSummaryLink" /\ r.pc = "findContent"
  /\ LET content == FindOne(contents, LAMBDA c : c.userId = r.link.userId, NoDoc) IN
     IF content = NoDoc
     THEN Complete(r, [r EXCEPT !.status = 411, !.message = "No Content To Show"])
     ELSE Complete(r, [r EXCEPT !.status = 200, !.doc = content,
                                !.message = "Here is your summary"])
  /\ UNCHANGED <<contents, sources, links, started, account, produced, overlap, issued, revoked>>

\* const content = await Content.findById(link.contentId)
getSummaryLinkFindContent(r) ==
  /\ r.op = "getSummaryLink" /\ r.pc = "findContent"
  /\ LET content == FindOne(contents, LAMBDA c : c.id = r.link.contentId, NoDoc) IN
     IF content = NoDoc
     THEN Complete(r, [r EXCEPT !.status = 411, !.message = "No Content To Show"])
     ELSE Complete(r, [r EXCEPT !.status = 200, !.doc = content,
                                !.message = "Here is your summary"])
  /\ UNCHANGED <<contents, sources, links, started, account, produced, overlap, issued, revoked>>

\* ------------------------------------------------------------- routes
\* What zodValidator(schema) does with a body: it calls next(), answers 411
\* on a failed parse, or throws out of schema.safeParse (a schema with an
\* async refinement parsed synchronously).
ZodOutcomes == {"next", "invalid", "throws"}

\* jwt.verify(token, JWT_SECRET): the signature is checked first, then the expiry.
verify(token) ==
  IF ~token.signed THEN [error |-> "JsonWebTokenError", _id |-> ""]
  ELSE IF token.expired THEN [error |-> "TokenExpiredError", _id |-> ""]
  ELSE [error |-> "", _id |-> token._id]

\* authHeader.startsWith("Bearer ") ? authHeader.split(" ")[1] : undefined
headerToken(authorization) ==
  IF authorization.present /\ authorization.scheme = "Bearer" THEN authorization.token
  ELSE NoToken

\* What a middleware did: it called next() for userId, or it answered.
Passed(userId) ==
  [next |-> TRUE, userId |-> userId, op |-> "", status |-> 0, via |-> "", message |-> ""]

Answered(op, status, via, text) ==
  [next |-> FALSE, userId |-> "", op |-> op, status |-> status, via |-> via,
   message |-> text]

\* AuthMiddleware with jwt.decode in place of jwt.verify: the payload is read
\* whatever the signature and the expiry.
AuthMiddlewareDecoding(authorization) ==
  IF headerToken(authorization).text = ""
  THEN Answered("AuthMiddleware", 401, "sendResponse", "Unauthorized")
  ELSE Passed(headerToken(authorization)._id)

\* AuthMiddleware: without a token after "Bearer " it answers 401; an error of
\* jwt.verify goes to next(error); otherwise req.userId = decodedUser._id; next().
AuthMiddleware(authorization) ==
  IF headerToken(authorization).text = ""
  THEN Answered("AuthMiddleware", 401, "sendResponse", "Unauthorized")
  ELSE LET decodedUser == verify(headerToken(authorization)) IN
       IF decodedUser.error # ""
       THEN Answered("AuthMiddleware", errorHandlerMiddleware(decodedUser.error),
                     "errorHandlerMiddleware", decodedUser.error)
       ELSE Passed(decodedUser._id)

\* zodValidator(schema) in front of AuthMiddleware.
zodValidator(outcome, authorization) ==
  IF outcome = "invalid"
  THEN Answered("zodValidator", 411, "sendResponse", "Input Validation Error")
  ELSE IF outcome = "throws"
  THEN Answered("zodValidator", errorHandlerMiddleware("Error"), "errorHandlerMiddleware",
                "Error")
  ELSE AuthMiddleware(authorization)

\* Requests arrive one at a time through the router, with their header.
Routed(authorization) ==
  [limit |-> 1, max |-> MaxRoutedReqs, authorization |-> authorization]

\* A middleware of the route answers the request; no handler runs.
AnsweredByMiddleware(load, route, answer) ==
  /\ Receive(load)
  /\ last' = [NewReq(answer.op, "", NoBody, "done", Pre(load, ""))
                EXCEPT !.route = route, !.status = answer.status, !.via = answer.via,
                       !.sent = 1,
                       !.message = answer.message, !.failed = TRUE]
  /\ UNCHANGED <<contents, sources, links, reqs, overlap, issued, revoked>>

\* routes.post("/add-content", zodValidator(createContentSchema), AuthMiddleware, addContent)
addContentRoute(authorization, outcome, body) ==
  LET answer == zodValidator(outcome, authorization) IN
  IF answer.next THEN addContent(Routed(authorization), answer.userId, body)
  ELSE AnsweredByMiddleware(Routed(authorization), "add-content", answer)

\* routes.get("/get-all-content", AuthMiddleware, getAllContent)
getAllContentRoute(authorization, query) ==
  LET answer == AuthMiddleware(authorization) IN
  IF answer.next THEN getAllContent(Routed(authorization), answer.userId, query)
  ELSE AnsweredByMiddleware(Routed(authorization), "get-all-content", answer)

\* routes.delete("/delete-content", AuthMiddleware, deleteContent)
deleteContentRoute(authorization, contentId) ==
  LET answer == AuthMiddleware(authorization) IN
  IF answer.next THEN deleteContent(Routed(authorization), answer.userId, contentId)
  ELSE AnsweredByMiddleware(Routed(authorization), "delete-content", answer)

\* routes.post("/create-link/:contentId", zodValidator(createLinkSchema), AuthMiddleware, createLink)
createLinkRoute(authorization, outcome, contentId) ==
  LET answer == zodValidator(outcome, authorization) IN
  IF answer.next THEN createLink(Routed(authorization), answer.userId, contentId)
  ELSE AnsweredByMiddleware(Routed(authorization), "create-link", answer)

\* routes.post("/brain-link", AuthMiddleware, createBrainLink)
createBrainLinkRoute(authorization, shareBrain) ==
  LET answer == AuthMiddleware(authorization) IN
  IF answer.next THEN createBrainLink(Routed(authorization), answer.userId, shareBrain)
  ELSE AnsweredByMiddleware(Routed(authorization), "brain-link", answer)

\* routes.post("/summary-link/:contentId", AuthMiddleware, createSummaryLink)
createSummaryLinkRoute(authorization, contentId) ==
  LET answer == AuthMiddleware(authorization) IN
  IF answer.next THEN createSummaryLink(Routed(authorization), answer.userId, contentId)
  ELSE AnsweredByMiddleware(Routed(authorization), "summary-link", answer)

\* app.use((req, res) => res.status(404).json({ success: false, message: "Route not found" }))
RouteNotFound(authorization) ==
  /\ Receive(Routed(authorization))
  /\ last' = [NewReq("RouteNotFound", "", NoBody, "done", Pre(Routed(authorization), ""))
                EXCEPT !.status = 404, !.via = "RouteNotFound", !.sent = 1,
                       !.message = "Route not found", !.failed = TRUE]
  /\ UNCHANGED <<contents, sources, links, reqs, overlap, issued, revoked>>

\* The keys of the body sendResponse writes (ApiResponse).
ApiResponse == {"statusCode", "success", "message", "data", "error"}

\* The keys of responseObj, the body the error handler writes.
responseObj(env) ==
  {"success", "message"} \cup (IF env = "DEVELOPMENT" THEN {"stack"} ELSE {})

\* The keys of the body the route-not-found handler writes.
RouteNotFoundBody == {"success", "message"}

\* The keys of the body of the response to request r.
ResponseKeys(r) ==
  IF r.via = "sendResponse" THEN ApiResponse
  ELSE IF r.via = "errorHandlerMiddleware" THEN responseObj(r.env)
  ELSE RouteNotFoundBody

\* ------------------------------------------------------------- specifications
Init ==
  /\ contents = <<>>
  /\ sources = <<>>
  /\ links = <<>>
  /\ reqs = {}
  /\ started = 0
  /\ last = NoReq
  /\ overlap = {}
  /\ issued = [u \in Users |-> {}]
  /\ revoked = [u \in Users |-> {}]
  /\ users = <<>> /\ otps = <<>> /\ tokens = {}
  /\ produced = {}

\* Ids a client may name: those of stored documents, an unknown one, a malformed one.
UnknownId == 99

StoredIds == {c.id : c \in Range(contents)}

ContentIds == StoredIds \cup {UnknownId, BadId}

\* Content handlers interleaving at their awaits.
Next ==
  \/ \E u \in Users, b \in RaceBodies : addContent(Racing, u, b)
  \/ \E u \in Users, id \in StoredIds : deleteContent(Racing, u, id)
  \/ \E r \in reqs : addContentFindSource(r)
  \/ \E r \in reqs : addContentSourceFind(r)
  \/ \E r \in reqs : addContentSourceCreate(r)
  \/ \E r \in reqs : addContentFindDup(r)
  \/ \E r \in reqs : addContentFindSummary(r)
  \/ \E r \in reqs : addContentCreate(r)
  \/ \E r \in reqs : addContentSaveReused(r)
  \/ \E r \in reqs : addContentGenerate(r)
  \/ \E r \in reqs : addContentSaveGenerated(r)
  \/ \E r \in reqs : deleteContentDelete(r)

Spec == Init /\ [][Next]_vars

\* Content handlers one at a time: a request arrives only when none is running.
NextSeq ==
  \/ \E u \in Users, b \in AddContentBodies : addContent(OneAtATime, u, b)
  \/ \E u \in Users, id \in ContentIds : deleteContent(OneAtATime, u, id)
  \/ \E r \in reqs : addContentFindSource(r)
  \/ \E r \in reqs : addContentSourceFind(r)
  \/ \E r \in reqs : addContentSourceCreate(r)
  \/ \E r \in reqs : addContentFindDup(r)
  \/ \E r \in reqs : addContentFindSummary(r)
  \/ \E r \in reqs : addContentCreate(r)
  \/ \E r \in reqs : addContentSaveReused(r)
  \/ \E r \in reqs : addContentGenerate(r)
  \/ \E r \in reqs : addContentSaveGenerated(r)
  \/ \E r \in reqs : deleteContentDelete(r)

SpecSeq == Init /\ [][NextSeq]_vars

\* A store the content handlers have filled: u1 saved two links, u2 one.
SeedContents ==
  <<[NoDoc EXCEPT !.id = 1, !.link = UrlGitHub, !.type = "article", !.title = "title",
                  !.userId = "u1", !.source = "github", !.summary = "S1"],
    [NoDoc EXCEPT !.id = 2, !.link = UrlGitHub, !.type = "article", !.title = "title",
                  !.userId = "u2", !.source = "github", !.summary = "S1"],
    [NoDoc EXCEPT !.id = 3, !.link = UrlYouTube, !.type = "article", !.title = "title",
                  !.userId = "u1", !.source = "github"]>>

InitShare ==
  /\ contents = SeedContents
  /\ sources = <<[name |-> "github"]>>
  /\ links = <<>>
  /\ reqs = {}
  /\ started = 0
  /\ last = NoReq
  /\ overlap = {}
  /\ issued = [u \in Users |-> {}]
  /\ revoked = [u \in Users |-> {}]
  /\ users = <<>> /\ otps = <<>> /\ tokens = {}
  /\ produced = {}

\* Content ids and hashes a client of the link routes may name.
LinkContentIds == {1, 2, BadId}

Hashes == generateHash(10) \cup generateHash(20)

BrainQueries ==
  {NoQuery, [NoQuery EXCEPT !.pageNumber = <<"2">>, !.pageSize = <<"1">>]}

\* The collection-share handlers interleaving at their awaits.
NextShare ==
  \/ \E u \in Users, b \in BOOLEAN : createBrainLink(Interleaved, u, b)
  \/ \E h \in generateHash(20) : getBrainLink(Interleaved, h, NoQuery)
  \/ \E r \in reqs : createBrainLinkFind(r)
  \/ \E r \in reqs : createBrainLinkCreate(r)
  \/ \E r \in reqs : createBrainLinkDelete(r)
  \/ \E r \in reqs : getBrainLinkFindLink(r)
  \/ \E r \in reqs : getBrainLinkFindContent(r)
  \/ \E r \in reqs : getBrainLinkCount(r)

SpecShare == InitShare /\ [][NextShare]_vars

\* Link handlers one at a time.
NextShareSeq ==
  \/ \E u \in Users, id \in LinkContentIds : createLink(OneAtATime, u, id)
  \/ \E u \in Users, b \in BOOLEAN : createBrainLink(OneAtATime, u, b)
  \/ \E h \in Hashes, q \in BrainQueries : getBrainLink(OneAtATime, h, q)
  \/ \E u \in Users, id \in LinkContentIds : createSummaryLink(OneAtATime, u, id)
  \/ \E h \in Hashes : getSummaryLink(OneAtATime, h)
  \/ \E r \in reqs : createLinkCreate(r)
  \/ \E r \in reqs : createBrainLinkFind(r)
  \/ \E r \in reqs : createBrainLinkCreate(r)
  \/ \E r \in reqs : createBrainLinkDelete(r)
  \/ \E r \in reqs : getBrainLinkFindLink(r)
  \/ \E r \in reqs : getBrainLinkFindContent(r)
  \/ \E r \in reqs : getBrainLinkCount(r)
  \/ \E r \in reqs : createSummaryLinkFind(r)
  \/ \E r \in reqs : createSummaryLinkCreate(r)
  \/ \E r \in reqs : getSummaryLinkFindLink(r)
  \/ \E r \in reqs : getSummaryLinkFindContent(r)

SpecShareSeq == InitShare /\ [][NextShareSeq]_vars

\* A store the handlers have filled: four creates (u1 three links, u2 one),
\* then a collection link of u1 and an item link of u2.
ListContents ==
  <<[NoDoc EXCEPT !.id = 1, !.link = UrlGitHub, !.type = "article", !.title = "title",
                  !.userId = "u1", !.source = "github", !.summary = "S1"],
    [NoDoc EXCEPT !.id = 2, !.link = UrlFacebook, !.type = "article", !.title = "title",
                  !.userId = "u1", !.source = "facebook", !.summary = ""],
    [NoDoc EXCEPT !.id = 3, !.link = UrlGitHub, !.type = "article", !.title = "title",
                  !.userId = "u2", !.source = "github", !.summary = "S1"],
    [NoDoc EXCEPT !.id = 4, !.link = UrlYouTube, !.type = "video", !.title = "title",
                  !.userId = "u1", !.source = "github"]>>

ListLinks ==
  <<[hash |-> <<20, 1>>, userId |-> "u1", contentId |-> NoId],
    [hash |-> <<10, 1>>, userId |-> "u2", contentId |-> 3]>>

InitList ==
  /\ contents = ListContents
  /\ sources = <<[name |-> "github"], [name |-> "facebook"]>>
  /\ links = ListLinks
  /\ reqs = {}
  /\ started = 0
  /\ last = NoReq
  /\ overlap = {}
  /\ issued = [u \in Users |-> IF u = "u1" THEN {<<20, 1>>} ELSE {}]
  /\ revoked = [u \in Users |-> {}]
  /\ users = <<>> /\ otps = <<>> /\ tokens = {}
  /\ produced = {}

\* Queries a client may send: pageNumber and pageSize absent, numeric, zero,
\* numeric with a tail, or not numeric; with and without a source filter.
ListQueries ==
  {NoQuery,
   [NoQuery EXCEPT !.source = "github"],
   [NoQuery EXCEPT !.pageNumber = <<"1">>, !.pageSize = <<"2">>],
   [NoQuery EXCEPT !.pageNumber = <<"2">>, !.pageSize = <<"2">>],
   [NoQuery EXCEPT !.pageNumber = <<"2">>, !.pageSize = <<"1">>, !.source = "github"],
   [NoQuery EXCEPT !.pageNumber = <<"3">>, !.pageSize = <<"1">>],
   [NoQuery EXCEPT !.pageNumber = <<"1">>, !.pageSize = <<"1", "2">>, !.source = "facebook"],
   [NoQuery EXCEPT !.pageNumber = <<"0">>, !.pageSize = <<"0">>],
   [NoQuery EXCEPT !.pageNumber = <<"2", "x">>, !.pageSize = <<"1", "x">>],
   [NoQuery EXCEPT !.pageNumber = <<"x">>, !.pageSize = <<"x", "2">>]}

\* The listing handlers and deleteContent, one at a time.
NextList ==
  \/ \E u \in Users, q \in ListQueries : getAllContent(OneAtATime, u, q)
  \/ \E h \in Hashes, q \in ListQueries : getBrainLink(OneAtATime, h, q)
  \/ \E u \in Users, id \in StoredIds : deleteContent(OneAtATime, u, id)
  \/ \E r \in reqs : getAllContentFind(r)
  \/ \E r \in reqs : getAllContentCount(r)
  \/ \E r \in reqs : getBrainLinkFindLink(r)
  \/ \E r \in reqs : getBrainLinkFindContent(r)
  \/ \E r \in reqs : getBrainLinkCount(r)
  \/ \E r \in reqs : deleteContentDelete(r)

SpecList == InitList /\ [][NextList]_vars

\* Who may request a summary view: a user, or nobody in particular.
Requesters == Users \cup {""}

\* The item-level handlers and deleteContent, one at a time.
NextItem ==
  \/ \E u \in Users, id \in LinkContentIds : createLink(OneAtATime, u, id)
  \/ \E u \in Users, id \in LinkContentIds : createSummaryLink(OneAtATime, u, id)
  \/ \E u \in Users, id \in StoredIds : deleteContent(OneAtATime, u, id)
  \/ \E h \in generateHash(10) : getSummaryLink(OneAtATime, h)
  \/ \E q \in Requesters, id \in ContentIds : getContentSummary(OneAtATime, q, id)
  \/ \E r \in reqs : createLinkCreate(r)
  \/ \E r \in reqs : createSummaryLinkFind(r)
  \/ \E r \in reqs : createSummaryLinkCreate(r)
  \/ \E r \in reqs : deleteContentDelete(r)
  \/ \E r \in reqs : getSummaryLinkFindLink(r)
  \/ \E r \in reqs : getSummaryLinkFindContent(r)
  \/ \E r \in reqs : getContentSummaryFind(r)

SpecItem == InitShare /\ [][NextItem]_vars

\* Sources and links generateSummary may be called with: the sources of the
\* schema, an unknown one and none; links of each path shape.
SummarySources == ContentSource \cup {"medium", ""}

SummaryLinks == {UrlGitHub, UrlYouTube, UrlFacebook, UrlTwitterRoot}

\* Calls of generateSummary, one at a time.
NextSummary ==
  \/ \E x \in SummarySources, l \in SummaryLinks : generateSummaryCall(OneAtATime, x, l)
  \/ \E r \in reqs : generateSummaryYouTube(r)
  \/ \E r \in reqs : generateSummaryTwitter(r)
  \/ \E r \in reqs : generateSummaryGitHub(r)

SpecSummary == Init /\ [][NextSummary]_vars

\* The authorization headers a client may send: none, another scheme, "Bearer "
\* with nothing after it, a token not signed with the secret, an expired
\* token, and the valid tokens of the users.
Authorizations ==
  {NoAuthorization,
   [present |-> TRUE, scheme |-> "Basic",
    token |-> [text |-> "jwt", _id |-> "u1", signed |-> TRUE, expired |-> FALSE]],
   [present |-> TRUE, scheme |-> "Bearer", token |-> NoToken],
   [present |-> TRUE, scheme |-> "Bearer",
    token |-> [text |-> "jwt", _id |-> "u1", signed |-> FALSE, expired |-> FALSE]],
   [present |-> TRUE, scheme |-> "Bearer",
    token |-> [text |-> "jwt", _id |-> "u1", signed |-> TRUE, expired |-> TRUE]]}
  \cup {[present |-> TRUE, scheme |-> "Bearer",
         token |-> [text |-> "jwt", _id |-> u, signed |-> TRUE, expired |-> FALSE]] :
          u \in Users}

\* Bodies posted to add-content: a link whose summary a stored record carries,
\* and a video of a source not yet registered.
RoutedBodies ==
  {[NoBody EXCEPT !.link = UrlGitHub, !.type = "article", !.title = "title", !.source = "github"],
   [NoBody EXCEPT !.link = UrlYouTube, !.type = "video", !.title = "title", !.source = "youtube"]}

\* The routes that require authentication, an unknown route, and the
\* handlers behind the routes, one request at a time.
NextRoutes ==
  \/ \E a \in Authorizations, z \in ZodOutcomes, b \in RoutedBodies : addContentRoute(a, z, b)
  \/ \E a \in Authorizations : getAllContentRoute(a, NoQuery)
  \/ \E a \in Authorizations, id \in {1, BadId} : deleteContentRoute(a, id)
  \/ \E a \in Authorizations, z \in ZodOutcomes : createLinkRoute(a, z, 1)
  \/ \E a \in Authorizations, b \in BOOLEAN : createBrainLinkRoute(a, b)
  \/ \E a \in Authorizations : createSummaryLinkRoute(a, 1)
  \/ \E a \in Authorizations : RouteNotFound(a)
  \/ \E r \in reqs : addContentFindSource(r)
  \/ \E r \in reqs : addContentSourceFind(r)
  \/ \E r \in reqs : addContentSourceCreate(r)
  \/ \E r \in reqs : addContentFindDup(r)
  \/ \E r \in reqs : addContentFindSummary(r)
  \/ \E r \in reqs : addContentCreate(r)
  \/ \E r \in reqs : addContentSaveReused(r)
  \/ \E r \in reqs : addContentGenerate(r)
  \/ \E r \in reqs : addContentSaveGenerated(r)
  \/ \E r \in reqs : getAllContentFind(r)
  \/ \E r \in reqs : getAllContentCount(r)
  \/ \E r \in reqs : deleteContentDelete(r)
  \/ \E r \in reqs : createLinkCreate(r)
  \/ \E r \in reqs : createBrainLinkFind(r)
  \/ \E r \in reqs : createBrainLinkCreate(r)
  \/ \E r \in reqs : createBrainLinkDelete(r)
  \/ \E r \in reqs : createSummaryLinkFind(r)
  \/ \E r \in reqs : createSummaryLinkCreate(r)

SpecRoutes == InitShare /\ [][NextRoutes]_vars

\* Calls of generateSummary, one at a time, each strategy at its awaits.
NextProvider ==
  \/ \E x \in SummarySources, l \in SummaryLinks : generateSummaryEnter(OneAtATime, x, l)
  \/ \E r \in reqs : getYouTubeSummaryGet(r)
  \/ \E r \in reqs : getTwitterSummaryGet(r)
  \/ \E r \in reqs : getGitHubSummaryGetRepo(r)
  \/ \E r \in reqs : getGitHubSummaryGetReadme(r)
  \/ \E r \in reqs : generateContent(r)

SpecProvider == Init /\ [][NextProvider]_vars

\* Requests handed to the handlers directly, one at a time.
Direct == [limit |-> 1, max |-> MaxRoutedReqs]

\* The ten content and link handlers, one request at a time.
NextHandlers ==
  \/ \E u \in Users, b \in RoutedBodies \cup {NoBody} : addContent(Direct, u, b)
  \/ \E u \in Users, q \in BrainQueries : getAllContent(Direct, u, q)
  \/ \E id \in {1, BadId} : deleteContent(Direct, "u1", id)
  \/ getAllSources(Direct)
  \/ \E id \in {1, UnknownId, BadId} : getContentSummary(Direct, "", id)
  \/ \E id \in {1, NoId, BadId} : createLink(Direct, "u1", id)
  \/ \E b \in BOOLEAN : createBrainLink(Direct, "u1", b)
  \/ \E h \in Hashes : getBrainLink(Direct, h, NoQuery)
  \/ \E id \in {1, NoId} : createSummaryLink(Direct, "u1", id)
  \/ \E h \in generateHash(10) : getSummaryLink(Direct, h)
  \/ \E r \in reqs : addContentFindSource(r)
  \/ \E r \in reqs : addContentSourceFind(r)
  \/ \E r \in reqs : addContentSourceCreate(r)
  \/ \E r \in reqs : addContentFindDup(r)
  \/ \E r \in reqs : addContentFindSummary(r)
  \/ \E r \in reqs : addContentCreate(r)
  \/ \E r \in reqs : addContentSaveReused(r)
  \/ \E r \in reqs : addContentGenerate(r)
  \/ \E r \in reqs : addContentSaveGenerated(r)
  \/ \E r \in reqs : getAllContentFind(r)
  \/ \E r \in reqs : getAllContentCount(r)
  \/ \E r \in reqs : deleteContentDelete(r)
  \/ \E r \in reqs : getAllSourcesFind(r)
  \/ \E r \in reqs : getContentSummaryFind(r)
  \/ \E r \in reqs : createLinkCreate(r)
  \/ \E r \in reqs : createBrainLinkFind(r)
  \/ \E r \in reqs : createBrainLinkCreate(r)
  \/ \E r \in reqs : createBrainLinkDelete(r)
  \/ \E r \in reqs : getBrainLinkFindLink(r)
  \/ \E r \in reqs : getBrainLinkFindContent(r)
  \/ \E r \in reqs : getBrainLinkCount(r)
  \/ \E r \in reqs : createSummaryLinkFind(r)
  \/ \E r \in reqs : createSummaryLinkCreate(r)
  \/ \E r \in reqs : getSummaryLinkFindLink(r)
  \/ \E r \in reqs : getSummaryLinkFindContent(r)

SpecHandlers == InitShare /\ [][NextHandlers]_vars

\* The lengths generateHash is called with: the short ones, 10 (createLink,
\* createSummaryLink) and 20 (createBrainLink).
HashLengths == (1..MaxHashLength) \cup {10, 20}

NextHash == \E length \in HashLengths : generateHashCall(Once, length)

SpecHash == Init /\ [][NextHash]_vars

\* Values of NODE_ENV.
Environments == {"DEVELOPMENT", "PRODUCTION"}

\* Runs of the error handler on the errors that reach it.
NextError ==
  \E err \in Errors, env \in Environments : errorHandlerMiddlewareRun(OneAtATime, err, env)

SpecError == Init /\ [][NextError]_vars

\* ------------------------------------------------------------- accounts
Emails == {"a@x.io", "b@x.io"}
Passwords == {"p", "q"}

\* generateVerifiactionCode(): six random alphanumeric characters.
Codes == {"c1", "c2"}

\* bcryptjs.hash(password, 10) and bcryptjs.compare(password, hashed).
bcryptHash(password) == <<"bcrypt", password>>
bcryptCompare(password, hashed) == hashed = <<"bcrypt", password>>

\* generateHash(10) in the account handlers: ten characters of random bytes,
\* taken to differ from every verification hash in the store (the Otp schema
\* itself puts no unique index on hashedCode).
FreshHashes ==
  {h \in generateHash(10) : \A i \in 1..Len(otps) : otps[i].hashedCode # h}

\* User.create: the unique indexes on username and email.
UserCreateError(doc) ==
  IF \E i \in 1..Len(users) :
       users[i].username = doc.username \/ users[i].email = doc.email
  THEN "DuplicateKey" ELSE ""

\* User.findById(id)
UserById(id) == FindOne(users, LAMBDA u : u.id = id, NoUser)

\* document.save() of a User document: the stored document of that _id is
\* replaced.
SaveUser(doc) == [i \in 1..Len(users) |-> IF users[i].id = doc.id THEN doc ELSE users[i]]

\* createToken(res, user, check): signs the token and the refresh token for
\* user._id, sets the cookie and answers 200 with the message check.
createToken(r, user, check) ==
  /\ Complete(r, [r EXCEPT !.status = 200, !.message = check, !.fetchUser = user,
                           !.token = user.id])
  /\ tokens' = tokens \cup {user.id}

\* POST /register (after zodValidator(createUserSchema), which keeps
\* username, email and password of the body).
registerUser(load, username, email, password) ==
  /\ Receive(load)
  /\ reqs' = reqs \cup {[NewReq("registerUser", "", NoBody, "findUser", Pre(load, ""))
                           EXCEPT !.username = username, !.email = email,
                                  !.password = password]}
  /\ UNCHANGED <<contents, sources, links, last, overlap, issued, revoked>>

\* existingUser = await User.findOne({ email })
registerUserFindUser(r) ==
  /\ r.op = "registerUser" /\ r.pc = "findUser"
  /\ LET existingUser == FindOne(users, LAMBDA u : u.email = r.email, NoUser) IN
     IF existingUser # NoUser
     THEN Complete(r, [r EXCEPT !.status = 403, !.message = "User already exists",
                                !.fetchUser = existingUser])
     ELSE /\ Goto(r, [r EXCEPT !.pc = "create"])
          /\ UNCHANGED last
  /\ UNCHANGED <<contents, sources, links, started, account, produced, overlap, issued, revoked>>

\* registerUser = await User.create(userData), then the verification hash of
\* a user whose email is not verified, and the code.
registerUserCreate(r) ==
  /\ r.op = "registerUser" /\ r.pc = "create"
  /\ LET doc == [NoUser EXCEPT !.id = Len(users) + 1, !.username = r.username,
                               !.email = r.email,
                               !.password = bcryptHash(r.password)] IN
     IF UserCreateError(doc) # ""
     THEN /\ Complete(r, [r EXCEPT !.status = errorHandlerMiddleware(UserCreateError(doc)),
                                   !.via = "errorHandlerMiddleware",
                                   !.failed = TRUE, !.message = UserCreateError(doc)])
          /\ UNCHANGED users
     ELSE /\ users' = Append(users, doc)
          /\ \E verificationHash \in IF ~doc.isEmailVerified THEN FreshHashes ELSE {NoHash},
                code \in Codes :
               Goto(r, [r EXCEPT !.pc = "createOtp", !.fetchUser = doc,
                                 !.hash = verificationHash, !.code = code])
          /\ UNCHANGED last
  /\ UNCHANGED <<contents, sources, links, started, otps, tokens, produced, overlap, issued, revoked>>

\* await Otp.create({ userId, hashedCode: verificationHash, code }); hashedCode
\* is a required path.
registerUserOtpCreate(r) ==
  /\ r.op = "registerUser" /\ r.pc = "createOtp"
  /\ IF r.hash = NoHash
     THEN /\ Complete(r, [r EXCEPT !.status = errorHandlerMiddleware("ValidationError"),
                                   !.via = "errorHandlerMiddleware",
                                   !.failed = TRUE, !.message = "ValidationError"])
          /\ UNCHANGED otps
     ELSE /\ otps' = Append(otps, [userId |-> r.fetchUser.id, hashedCode |-> r.hash,
                                   code |-> r.code])
          /\ Goto(r, [r EXCEPT !.pc = "mail"])
          /\ UNCHANGED last
  /\ UNCHANGED <<contents, sources, links, started, users, tokens, produced, overlap, issued, revoked>>

\* await sendMail(...) with the code (a failure to send is logged only), then
\* sendResponse(res, 201, ..., { hashedCode: verificationHash })
registerUserMail(r) ==
  /\ r.op = "registerUser" /\ r.pc = "mail"
  /\ Complete(r, [r EXCEPT !.status = 201, !.message = "User created successfully"])
  /\ UNCHANGED <<contents, sources, links, started, account, produced, overlap, issued, revoked>>

\* POST /login
createSession(load, email, password) ==
  /\ Receive(load)
  /\ reqs' = reqs \cup {[NewReq("createSession", "", NoBody, "findUser", Pre(load, ""))
                           EXCEPT !.email = email, !.password = password]}
  /\ UNCHANGED <<contents, sources, links, last, overlap, issued, revoked>>

\* createSessionFindUser without the branch for a user whose email is not
\* verified.
createSessionFindUserUnverified(r) ==
  /\ r.op = "createSession" /\ r.pc = "findUser"
  /\ LET fetchUser == FindOne(users, LAMBDA u : u.email = r.email, NoUser) IN
     IF fetchUser = NoUser
     THEN /\ Complete(r, [r EXCEPT !.status = 404, !.message = "User not found"])
          /\ UNCHANGED tokens
     ELSE IF ~bcryptCompare(r.password, fetchUser.password)
     THEN /\ Complete(r, [r EXCEPT !.status = 403, !.message = "Invalid Credentials"])
          /\ UNCHANGED tokens
     ELSE createToken(r, fetchUser, "Login successful")
  /\ UNCHANGED <<contents, sources, links, started, users, otps, produced, overlap, issued, revoked>>

\* fetchUser = await User.findOne({ email }).select("+password"), then
\* bcryptjs.compare; a verified user is answered by createToken.
createSessionFindUser(r) ==
  /\ r.op = "createSession" /\ r.pc = "findUser"
  /\ LET fetchUser == FindOne(users, LAMBDA u : u.email = r.email, NoUser) IN
     IF fetchUser = NoUser
     THEN /\ Complete(r, [r EXCEPT !.status = 404, !.message = "User not found"])
          /\ UNCHANGED tokens
     ELSE IF ~bcryptCompare(r.password, fetchUser.password)
     THEN /\ Complete(r, [r EXCEPT !.status = 403, !.message = "Invalid Credentials"])
          /\ UNCHANGED tokens
     ELSE IF ~fetchUser.isEmailVerified
     THEN /\ Goto(r, [r EXCEPT !.pc = "findOtp", !.fetchUser = fetchUser])
          /\ UNCHANGED <<last, tokens>>
     ELSE createToken(r, fetchUser, "Login successful")
  /\ UNCHANGED <<contents, sources, links, started, users, otps, produced, overlap, issued, revoked>>

\* existHashedCode = await Otp.findOne({ userId: fetchUser._id }); without
\* one, the new verification hash and code are generated.
createSessionFindOtp(r) ==
  /\ r.op = "createSession" /\ r.pc = "findOtp"
  /\ LET existHashedCode == FindOne(otps, LAMBDA o : o.userId = r.fetchUser.id, NoOtp) IN
     IF existHashedCode # NoOtp
     THEN Goto(r, [r EXCEPT !.pc = "deleteOtp", !.otpData = existHashedCode])
     ELSE \E verificationHash \in FreshHashes, code \in Codes :
            Goto(r, [r EXCEPT !.pc = "mail", !.hash = verificationHash, !.code = code])
  /\ UNCHANGED <<contents, sources, links, started, account, produced, last, overlap, issued, revoked>>

\* await Otp.deleteOne({ userId: fetchUser._id }), then the new verification
\* hash and code are generated (and stored nowhere).
createSessionDeleteOtp(r) ==
  /\ r.op = "createSession" /\ r.pc = "deleteOtp"
  /\ otps' = RemoveFirst(otps, LAMBDA o : o.userId = r.fetchUser.id)
  /\ \E verificationHash \in generateHash(10), code \in Codes :
       /\ \A i \in 1..Len(otps') : otps'[i].hashedCode # verificationHash
       /\ Goto(r, [r EXCEPT !.pc = "mail", !.hash = verificationHash, !.code = code])
  /\ UNCHANGED <<contents, sources, links, started, users, tokens, produced, last, overlap, issued, revoked>>

\* await sendMail(...) with the code, then
\* sendResponse(res, 200, true, "User Email not verified", verificationHash)
createSessionMail(r) ==
  /\ r.op = "createSession" /\ r.pc = "mail"
  /\ Complete(r, [r EXCEPT !.status = 200, !.message = "User Email not verified"])
  /\ UNCHANGED <<contents, sources, links, started, account, produced, overlap, issued, revoked>>

\* The refresh-token cookies a client can send: none, one it made up, or one
\* createToken has signed.
RefreshCookies ==
  {NoCookie}
    \cup {[present |-> TRUE, signed |-> FALSE, _id |-> id] : id \in {1, UnknownId}}
    \cup {[present |-> TRUE, signed |-> TRUE, _id |-> id] : id \in tokens}

\* GET /refresh-token: without the cookie 403; validateToken throws on a
\* token that JWT_REFRESH_SECRET did not sign.
refreshToken(load, cookie) ==
  LET r == [NewReq("refreshToken", "", NoBody, "findUser", Pre(load, ""))
              EXCEPT !.cookie = cookie] IN
  /\ Receive(load)
  /\ IF ~cookie.present
     THEN /\ last' = [r EXCEPT !.pc = "done", !.sent = 1, !.status = 403,
                               !.message = "Unauthorized Action"]
          /\ UNCHANGED reqs
     ELSE IF ~cookie.signed
     THEN /\ last' = [r EXCEPT !.pc = "done", !.sent = 1,
                               !.status = errorHandlerMiddleware("JsonWebTokenError"),
                               !.via = "errorHandlerMiddleware", !.failed = TRUE,
                               !.message = "JsonWebTokenError"]
          /\ UNCHANGED reqs
     ELSE /\ reqs' = reqs \cup {r}
          /\ UNCHANGED last
  /\ UNCHANGED <<contents, sources, links, overlap, issued, revoked>>

\* userData = await User.findById({ _id: data }), then createToken.
refreshTokenFindUser(r) ==
  /\ r.op = "refreshToken" /\ r.pc = "findUser"
  /\ LET userData == UserById(r.cookie._id) IN
     IF userData = NoUser
     THEN /\ Complete(r, [r EXCEPT !.status = 403, !.message = "Unauthorized Action"])
          /\ UNCHANGED tokens
     ELSE createToken(r, userData, "Token refreshed successfully")
  /\ UNCHANGED <<contents, sources, links, started, users, otps, produced, overlap, issued, revoked>>

\* POST /verify/:hashedCode with the code in the body.
verifyEmail(load, hashedCode, code) ==
  /\ Receive(load)
  /\ reqs' = reqs \cup {[NewReq("verifyEmail", "", NoBody, "findOtp", Pre(load, ""))
                           EXCEPT !.hash = hashedCode, !.code = code]}
  /\ UNCHANGED <<contents, sources, links, last, overlap, issued, revoked>>

\* otpData = await Otp.findOne({ hashedCode })
verifyEmailFindOtp(r) ==
  /\ r.op = "verifyEmail" /\ r.pc = "findOtp"
  /\ LET otpData == FindOne(otps, LAMBDA o : o.hashedCode = r.hash, NoOtp) IN
     IF otpData = NoOtp
     THEN Complete(r, [r EXCEPT !.status = 403, !.message = "Invalid code"])
     ELSE /\ Goto(r, [r EXCEPT !.pc = "findUser", !.otpData = otpData])
          /\ UNCHANGED last
  /\ UNCHANGED <<contents, sources, links, started, account, produced, overlap, issued, revoked>>

\* verifyEmailFindUser without the comparison of the code.
verifyEmailFindUserAnyCode(r) ==
  /\ r.op = "verifyEmail" /\ r.pc = "findUser"
  /\ LET fetchUser == UserById(r.otpData.userId) IN
     IF fetchUser = NoUser
     THEN Complete(r, [r EXCEPT !.status = 403, !.message = "Invalid code"])
     ELSE /\ Goto(r, [r EXCEPT !.pc = "save", !.fetchUser = fetchUser])
          /\ UNCHANGED last
  /\ UNCHANGED <<contents, sources, links, started, account, produced, overlap, issued, revoked>>

\* fetchUser = await User.findById(otpData.userId), then otpData.code !== code
verifyEmailFindUser(r) ==
  /\ r.op = "verifyEmail" /\ r.pc = "findUser"
  /\ LET fetchUser == UserById(r.otpData.userId) IN
     IF fetchUser = NoUser \/ r.otpData.code # r.code
     THEN Complete(r, [r EXCEPT !.status = 403, !.message = "Invalid code"])
     ELSE /\ Goto(r, [r EXCEPT !.pc = "save", !.fetchUser = fetchUser])
          /\ UNCHANGED last
  /\ UNCHANGED <<contents, sources, links, started, account, produced, overlap, issued, revoked>>

\* fetchUser.isEmailVerified = true; await fetchUser.save()
verifyEmailSave(r) ==
  /\ r.op = "verifyEmail" /\ r.pc = "save"
  /\ LET saved == [r.fetchUser EXCEPT !.isEmailVerified = TRUE] IN
     /\ users' = SaveUser(saved)
     /\ Goto(r, [r EXCEPT !.pc = "deleteOtp", !.fetchUser = saved])
  /\ UNCHANGED <<contents, sources, links, started, otps, tokens, produced, last, overlap, issued, revoked>>

\* verifyEmailDeleteOtp without the deletion.
verifyEmailKeepOtp(r) ==
  /\ r.op = "verifyEmail" /\ r.pc = "deleteOtp"
  /\ createToken(r, r.fetchUser, "Email verified successfully")
  /\ UNCHANGED <<contents, sources, links, started, users, otps, produced, overlap, issued, revoked>>

\* await Otp.deleteOne({ userId: fetchUser._id }), then createToken.
verifyEmailDeleteOtp(r) ==
  /\ r.op = "verifyEmail" /\ r.pc = "deleteOtp"
  /\ otps' = RemoveFirst(otps, LAMBDA o : o.userId = r.fetchUser.id)
  /\ createToken(r, r.fetchUser, "Email verified successfully")
  /\ UNCHANGED <<contents, sources, links, started, users, produced, overlap, issued, revoked>>

\* PUT /reset-password/:userId
resetPassword(load, id, password) ==
  /\ Receive(load)
  /\ reqs' = reqs \cup {[NewReq("resetPassword", "", [NoBody EXCEPT !.contentId = id],
                                "findUser", Pre(load, ""))
                           EXCEPT !.password = password]}
  /\ UNCHANGED <<contents, sources, links, last, overlap, issued, revoked>>

\* userData = await User.findById(userId).select("+password"), then
\* bcryptjs.compare with the old password.
resetPasswordFindUser(r) ==
  /\ r.op = "resetPassword" /\ r.pc = "findUser"
  /\ LET userData == UserById(r.body.contentId) IN
     IF userData = NoUser
     THEN Complete(r, [r EXCEPT !.status = 404, !.message = "User not found"])
     ELSE IF bcryptCompare(r.password, userData.password)
     THEN Complete(r, [r EXCEPT !.status = 400,
                         !.message = "New password cannot be the same as the old password"])
     ELSE /\ Goto(r, [r EXCEPT !.pc = "save", !.fetchUser = userData])
          /\ UNCHANGED last
  /\ UNCHANGED <<contents, sources, links, started, account, produced, overlap, issued, revoked>>

\* userData.password = hashedPassword; await userData.save()
resetPasswordSave(r) ==
  /\ r.op = "resetPassword" /\ r.pc = "save"
  /\ LET saved == [r.fetchUser EXCEPT !.password = bcryptHash(r.password)] IN
     /\ users' = SaveUser(saved)
     /\ Complete(r, [r EXCEPT !.status = 200, !.message = "Password reset successfully",
                              !.fetchUser = saved])
  /\ UNCHANGED <<contents, sources, links, started, otps, tokens, produced, overlap, issued, revoked>>

\* The bodies of POST /register: two users, and one with the username of the
\* first and the email of the second.
Registrations ==
  {[username |-> "alice", email |-> "a@x.io", password |-> "p"],
   [username |-> "bob", email |-> "b@x.io", password |-> "p"],
   [username |-> "alice", email |-> "b@x.io", password |-> "q"]}

\* Requests to the account routes, one at a time; each keeps what the request
\* before it was answered.
Account == [limit |-> 1, max |-> MaxAccountReqs, previous |-> TRUE]

NextAccount ==
  \/ \E body \in Registrations :
       registerUser(Account, body.username, body.email, body.password)
  \/ \E email \in Emails, password \in Passwords : createSession(Account, email, password)
  \/ \E cookie \in RefreshCookies : refreshToken(Account, cookie)
  \/ \E hashedCode \in generateHash(10), code \in Codes :
       verifyEmail(Account, hashedCode, code)
  \/ \E id \in {1, UnknownId}, password \in Passwords : resetPassword(Account, id, password)
  \/ \E r \in reqs : registerUserFindUser(r)
  \/ \E r \in reqs : registerUserCreate(r)
  \/ \E r \in reqs : registerUserOtpCreate(r)
  \/ \E r \in reqs : registerUserMail(r)
  \/ \E r \in reqs : createSessionFindUser(r)
  \/ \E r \in reqs : createSessionFindOtp(r)
  \/ \E r \in reqs : createSessionDeleteOtp(r)
  \/ \E r \in reqs : createSessionMail(r)
  \/ \E r \in reqs : refreshTokenFindUser(r)
  \/ \E r \in reqs : verifyEmailFindOtp(r)
  \/ \E r \in reqs : verifyEmailFindUser(r)
  \/ \E r \in reqs : verifyEmailSave(r)
  \/ \E r \in reqs : verifyEmailDeleteOtp(r)
  \/ \E r \in reqs : resetPasswordFindUser(r)
  \/ \E r \in reqs : resetPasswordSave(r)

SpecAccount == Init /\ [][NextAccount]_vars

\* ------------------------------------------------------------- properties
\* No handler is running: every request received so far has been answered.
Quiet == reqs = {}

\* The request answered last was a create that passed the required-field check.
CreateAnswered ==
  /\ Quiet /\ last.op = "addContent"
  /\ last.body.link # "" /\ last.body.type # "" /\ last.body.title # ""

\* The Content record a create of request number n inserted, if still stored.
CreatedBy(n) == FindOne(contents, LAMBDA c : c.id = n, NoDoc)

\* The records owner userId held for link in the store coll.
OwnedWithLink(coll, userId, link) ==
  SelectSeq(coll, LAMBDA c : c.userId = userId /\ c.link = link)

\* C1: when create calls run one at a time, a create for a link its owner
\* already holds adds no Content record and is answered 409 with the record
\* the earlier create stored.
C1_SequentialOwnerDedup ==
  (CreateAnswered /\ Len(OwnedWithLink(last.pre.contents, last.userId, last.body.link)) > 0)
    => /\ last.status = 409
       /\ last.doc = OwnedWithLink(last.pre.contents, last.userId, last.body.link)[1]
       /\ contents = last.pre.contents
       /\ Len(OwnedWithLink(contents, last.userId, last.body.link)) = 1

\* C1 witness: a second create of the same link by the same owner was answered.
C1_Witness ==
  /\ CreateAnswered
  /\ Len(OwnedWithLink(last.pre.contents, last.userId, last.body.link)) > 0
  /\ last.status = 409

\* Pairs of positions of the Content collection that hold two records of one
\* owner with the same link.
OwnerLinkDuplicates ==
  {p \in (1..Len(contents)) \X (1..Len(contents)) :
     /\ p[1] < p[2]
     /\ contents[p[1]].userId = contents[p[2]].userId
     /\ contents[p[1]].link = contents[p[2]].link}

\* C2 as stated: under any interleaving of concurrent create calls, no owner
\* has two Content records with the same link.
C2_NoOwnerLinkDuplicate == OwnerLinkDuplicates = {}

\* C2 amended: two Content records of one owner share a link only if the
\* create calls that inserted them ran at the same time (a record's id is the
\* number of the request that inserted it).
C2_DuplicateOnlyByOverlap ==
  \A p \in OwnerLinkDuplicates :
     \E o \in overlap : o.op = "addContent" /\ o.ns = {contents[p[1]].id, contents[p[2]].id}

\* C2 witness: two overlapping creates have both inserted a record for the
\* same owner and link.
C2_Witness ==
  /\ Quiet
  /\ \E p \in OwnerLinkDuplicates :
       \E o \in overlap : o.op = "addContent" /\ o.ns = {contents[p[1]].id, contents[p[2]].id}

\* The request answered last was a delete.
DeleteAnswered == Quiet /\ last.op = "deleteContent"

\* C3: deleteContent removes a Content record only if its id is contentId and
\* its owner is the caller; when contentId names a record of another owner the
\* Content collection is left unchanged and the call is still answered 200.
C3_DeleteOnlyOwnRecord ==
  DeleteAnswered =>
    /\ contents = RemoveFirst(last.pre.contents,
                              LAMBDA c : c.id = last.body.contentId /\ c.userId = last.userId)
    /\ (\E c \in Range(last.pre.contents) :
          c.id = last.body.contentId /\ c.userId # last.userId) => last.status = 200

\* The request answered last was a well-formed create for a link its owner
\* did not hold.
NewLinkCreateAnswered ==
  /\ CreateAnswered /\ contentSchema(last.body)
  /\ Len(OwnedWithLink(last.pre.contents, last.userId, last.body.link)) = 0

C5_ProviderFailureIsolated ==
  (NewLinkCreateAnswered /\ last.invoked /\ last.failed)
    => /\ last.status = 200
       /\ CreatedBy(last.n) = last.doc
       /\ last.doc.userId = last.userId /\ last.doc.link = last.body.link
       /\ ~Truthy(last.doc.summary)

\* C5 witness: creates were answered after the provider failed, one of them on
\* a link of the wrong shape for its source.
C5_Witness ==
  /\ NewLinkCreateAnswered /\ last.invoked /\ last.failed
  /\ last.body.link = UrlYouTube /\ last.body.source = "github"
  /\ CreatedBy(last.n) # NoDoc

\* The number of Source records with this name.
SourceCount(name) == Len(SelectSeq(sources, LAMBDA x : x.name = name))

\* C10: after non-overlapping create calls that name a source, the Source
\* collection holds exactly one record with that name.
C10_OneSourcePerName ==
  /\ \A x \in Range(sources) : SourceCount(x.name) = 1
  /\ (CreateAnswered /\ last.body.source # "") => SourceCount(last.body.source) = 1

\* C10 witness: a create named a source an earlier create had registered.
C10_Witness ==
  /\ CreateAnswered /\ last.body.source # ""
  /\ \E x \in Range(last.pre.sources) : x.name = last.body.source
  /\ SourceCount(last.body.source) = 1

\* C6: a hash issued by createLink or createSummaryLink for one content item
\* never resolves, through getBrainLink, to the owner's whole collection.
C6_ItemHashNotCollectionScope ==
  (Quiet /\ last.op = "getBrainLink"
     /\ \E l \in Range(last.pre.links) : l.hash = last.body.hash /\ l.contentId # NoId)
    => last.status # 200

\* The request answered last was an enableShare (createBrainLink, shareBrain true).
EnableAnswered == Quiet /\ last.op = "createBrainLink" /\ last.body.shareBrain

\* C7: when enableShare is called again with no disableShare in between and
\* without overlap, it returns the URL the earlier call returned (the URL is
\* the base URL followed by the hash) and creates no Link record.
C7_EnableShareIdempotent ==
  (EnableAnswered /\ last.pre.issued # {})
    => /\ last.status = 200
       /\ last.pre.issued = {last.link.hash}
       /\ links = last.pre.links

\* C7 witness: a second enableShare of the same owner was answered.
C7_Witness ==
  /\ EnableAnswered /\ last.pre.issued # {}
  /\ last.link \in Range(links)

\* C8: once a disableShare has completed and no enableShare of that owner has
\* started since, no hash an earlier enableShare of the owner returned is the
\* hash of a Link of that owner, so that getBrainLink answers 411 for it.
C8_RevokedHashesUnresolvable ==
  \A u \in Users : \A h \in revoked[u] :
    ~\E l \in Range(links) : l.hash = h /\ l.userId = u

\* The Link records of userId without a content reference.
BrainLinks(userId) == SelectSeq(links, LAMBDA l : l.userId = userId /\ l.contentId = NoId)

\* Two enableShare calls of userId have run at the same time.
EnableOverlapped(userId) ==
  \E o \in overlap : o.op = "createBrainLink" /\ o.shareBrain /\ o.users = {userId}

\* C9 as stated: under any interleaving of enableShare and disableShare calls,
\* each owner has at most one Link record without a content reference.
C9_AtMostOneBrainLink == \A u \in Users : Len(BrainLinks(u)) <= 1

\* C9 amended: an owner has more than one Link record without a content
\* reference only if two enableShare calls of that owner ran at the same time.
C9_SecondBrainLinkOnlyByOverlap ==
  \A u \in Users : Len(BrainLinks(u)) > 1 => EnableOverlapped(u)

\* C9 witness: an owner whose enableShare calls never overlapped was answered
\* by a repeated enableShare and holds one such Link.
C9_Witness ==
  /\ EnableAnswered /\ last.status = 200
  /\ ~EnableOverlapped(last.userId)
  /\ Len(BrainLinks(last.userId)) = 1

\* C11: addContentSource on a name that is already registered returns without
\* error: no create fails because a concurrent create registered its source
\* between the create's own Source.findOne and that of addContentSource.
C11_RegisteredSourceNoError ==
  ~(last.op = "addContent" /\ last.message = "Content source already exists")

\* C12: the source of every persisted Content record is the name of a record
\* of the Source collection.
C12_ContentSourceRegistered ==
  \A c \in Range(contents) : \E x \in Range(sources) : x.name = c.source

\* C12 witness: records of two different sources are persisted.
C12_Witness ==
  /\ Quiet
  /\ \E c, d \in Range(contents) : c.source # d.source

ListAnswered == Quiet /\ last.op = "getAllContent"

\* The records of coll of this owner (and of this source, if one is given),
\* oldest first.
OwnedMatching(coll, userId, source) ==
  SelectSeq(coll, LAMBDA c : c.userId = userId /\ (source = "" \/ c.source = source))

Min(a, b) == IF a < b THEN a ELSE b

\* Positions first..last of the newest-first ordering of the records.
NewestFirstSlice(records, first, end) ==
  [i \in 1..(IF end < first THEN 0 ELSE end - first + 1) |->
     records[Len(records) + 1 - (first + i - 1)]]

\* C13: with no concurrent writes, getAllContent with page number p >= 1 and
\* page size s >= 1, for an owner with N records matching the filter, returns
\* the records at positions (p-1)*s+1 .. min(p*s, N) of the newest-first
\* ordering, and count = N whatever p and s are.
C13_PageOfNewestFirst ==
  ListAnswered =>
    LET p == last.paging.pageNumber
        s == last.paging.pageSize
        records == OwnedMatching(last.pre.contents, last.userId, last.body.query.source)
        N == Len(records)
    IN (p >= 1 /\ s >= 1) =>
         /\ last.status = 200
         /\ last.page = NewestFirstSlice(records, (p - 1) * s + 1, Min(p * s, N))
         /\ last.count = N

\* C13 witness: the second page of size 2 of an owner with 3 records holds 1.
C13_Witness ==
  /\ ListAnswered
  /\ last.paging = [pageNumber |-> 2, pageSize |-> 2]
  /\ last.count = 3 /\ Len(last.page) = 1

\* C14: every record getAllContent returns is owned by the caller and, when a
\* source filter is given, has that source.
C14_OnlyOwnRecords ==
  ListAnswered =>
    \A i \in 1..Len(last.page) :
      /\ last.page[i] \in Range(last.pre.contents)
      /\ last.page[i].userId = last.userId
      /\ last.body.query.source # "" => last.page[i].source = last.body.query.source

\* C14 witness: a filtered listing returned records while another owner held
\* records of the same source.
C14_Witness ==
  /\ ListAnswered /\ last.body.query.source # "" /\ Len(last.page) > 0
  /\ \E c \in Range(last.pre.contents) :
       c.userId # last.userId /\ c.source = last.body.query.source

\* The request answered last computed a paging: a getAllContent, or a
\* getBrainLink that found its link.
PagingAnswered ==
  /\ Quiet
  /\ \/ last.op = "getAllContent"
     \/ last.op = "getBrainLink" /\ last.status = 200

DigitChars == <<"0", "1", "2", "3", "4", "5", "6", "7", "8", "9">>

\* The decimal numeral of n < 100.
Numeral(n) ==
  IF n < 10 THEN <<DigitChars[n + 1]>>
  ELSE <<DigitChars[(n \div 10) + 1], DigitChars[(n % 10) + 1]>>

IsDigit(c) == \E k \in 1..10 : DigitChars[k] = c

\* A value is numeric when it is the numeral of a number.
IsNumeric(raw) == \E n \in 0..99 : raw = Numeral(n)

\* C15 as stated: an absent or non-numeric pageNumber or pageSize counts as 1
\* and 10, and a numeric one counts as the number supplied.
C15_NumericValueUsed ==
  PagingAnswered =>
    LET Effective(raw, dflt, v) ==
          IF IsNumeric(raw) THEN raw = Numeral(v) ELSE v = dflt
    IN /\ Effective(last.body.query.pageNumber, 1, last.paging.pageNumber)
       /\ Effective(last.body.query.pageSize, 10, last.paging.pageSize)

\* n is the number the value starts with: its numeral is a prefix of the value
\* and no digit follows it.
StartsWithNumber(raw, n) ==
  LET k == Len(Numeral(n)) IN
  /\ Len(raw) >= k /\ SubSeq(raw, 1, k) = Numeral(n)
  /\ Len(raw) > k => ~IsDigit(raw[k + 1])

\* C15 amended: a pageNumber or pageSize that starts with a number other than
\* 0 counts as that number, whatever follows its digits; any other value
\* (absent, starting with no digit, or 0) counts as 1 and 10.
C15_LeadingNumberOrDefault ==
  PagingAnswered =>
    LET Effective(raw, dflt, v) ==
          IF \E n \in 1..99 : StartsWithNumber(raw, n)
          THEN StartsWithNumber(raw, v)
          ELSE v = dflt
    IN /\ Effective(last.body.query.pageNumber, 1, last.paging.pageNumber)
       /\ Effective(last.body.query.pageSize, 10, last.paging.pageSize)

\* C15 witness: getBrainLink was answered for pageNumber "2x" and pageSize "1x".
C15_Witness ==
  /\ PagingAnswered /\ last.op = "getBrainLink"
  /\ last.body.query.pageNumber = <<"2", "x">>
  /\ last.paging = [pageNumber |-> 2, pageSize |-> 1]

\* What getAllContent answers to owner userId for this query.
ListForOwner(userId, query) ==
  LET paging == AllContentPaging(query) IN
  [page |-> ContentFind(AllContentFilter(userId, query),
                        (paging.pageNumber - 1) * paging.pageSize, paging.pageSize),
   count |-> ContentCountDocuments(AllContentFilter(userId, query))]

SummaryAnswered == Quiet /\ last.op = "getContentSummary"

\* The Content record of coll with this id, if any.
ById(coll, id) == FindOne(coll, LAMBDA c : c.id = id, NoDoc)

\* The request answered last changed nothing in the store.
StoreUnchanged ==
  contents = last.pre.contents /\ sources = last.pre.sources /\ links = last.pre.links

\* C17 as stated: getContentSummary answers 404 exactly when no Content has
\* the id; otherwise it answers the projection of that record to any
\* requester; it changes no state.
C17_NotFoundIffAbsent ==
  SummaryAnswered =>
    LET content == ById(last.pre.contents, last.body.contentId) IN
    /\ last.status = 404 <=> content = NoDoc
    /\ content # NoDoc => last.status = 200 /\ last.doc = SummaryView(content)
    /\ StoreUnchanged

\* C17 amended: for an id of the ObjectId format, getContentSummary answers 404
\* exactly when no Content has the id, and otherwise the projection of that
\* record to any requester; for an id of another format it answers 400; in
\* every case it changes no state.
C17_NotFoundIffAbsentWellFormed ==
  SummaryAnswered =>
    LET content == ById(last.pre.contents, last.body.contentId) IN
    /\ IF last.body.contentId = BadId THEN last.status = 400
       ELSE /\ last.status = 404 <=> content = NoDoc
            /\ content # NoDoc => last.status = 200 /\ last.doc = SummaryView(content)
    /\ last.status # 200 => last.doc = NoDoc
    /\ StoreUnchanged

\* C17 witness: the view of a record was answered to a requester who is not
\* its owner.
C17_Witness ==
  /\ SummaryAnswered /\ last.status = 200
  /\ ById(last.pre.contents, last.body.contentId).userId # last.userId

\* The request answered last was a getSummaryLink.
SummaryLinkAnswered == Quiet /\ last.op = "getSummaryLink"

\* The Link of coll with this hash, if any.
ByHash(coll, hash) == FindOne(coll, LAMBDA l : l.hash = hash, NoLinkDoc)

\* C18: getSummaryLink fails with "wrong url" when no Link has the hash and
\* with "not a summary link" when the Link has no content reference; when it
\* succeeds the view is that of the Content record the Link references.
C18_SummaryLinkResolvesItsRecord ==
  SummaryLinkAnswered =>
    LET link == ByHash(last.pre.links, last.body.hash) IN
    /\ link = NoLinkDoc =>
         last.status = 411 /\ last.message = "Sorry Wrong Url!!!" /\ last.doc = NoDoc
    /\ (link # NoLinkDoc /\ link.contentId = NoId) =>
         /\ last.status = 411 /\ last.doc = NoDoc
         /\ last.message = "This link does not point to a summary"
    /\ last.status = 200 =>
         /\ link.contentId # NoId
         /\ last.doc = ById(last.pre.contents, link.contentId)
         /\ last.doc.id = link.contentId

\* C18 witness: a summary link was resolved to the record it references while
\* its owner also had a collection link.
C18_Witness ==
  /\ SummaryLinkAnswered /\ last.status = 200
  /\ last.doc.id = last.link.contentId
  /\ BrainLinkOf(last.link.userId) # NoLinkDoc

\* C20: deleting a Content record leaves every Link record unchanged, and
\* afterwards getSummaryLink, on a hash whose Link references the deleted
\* record, answers a not-found error and no record's data.
C20_DanglingLinkNotFound ==
  /\ DeleteAnswered => links = last.pre.links
  /\ SummaryLinkAnswered =>
       LET link == ByHash(last.pre.links, last.body.hash) IN
       (link.contentId # NoId /\ ById(last.pre.contents, link.contentId) = NoDoc)
         => /\ last.status = 411 /\ last.message = "No Content To Show"
            /\ last.doc = NoDoc

\* C20 witness: getSummaryLink was answered on a link whose record had been
\* deleted, while the link is still stored.
C20_Witness ==
  /\ SummaryLinkAnswered /\ last.status = 411
  /\ last.link.contentId # NoId
  /\ last.link \in Range(links)
  /\ ById(contents, last.link.contentId) = NoDoc

\* The Link records of coll that userId holds for the content item contentId.
LinksOfPair(coll, userId, contentId) ==
  SelectSeq(coll, LAMBDA l : l.userId = userId /\ l.contentId = contentId)

\* The request answered last was a createLink that succeeded.
ItemLinkCreated == Quiet /\ last.op = "createLink" /\ last.status = 201

\* C21: every successful createLink adds exactly one Link record, whose hash
\* no Link had before and which references the owner and contentId, also
\* when the owner already has Links for the same content.
C21_ItemLinkAlwaysNew ==
  ItemLinkCreated =>
    /\ links = Append(last.pre.links, last.link)
    /\ last.link.userId = last.userId
    /\ last.link.contentId = last.body.contentId
    /\ last.link.hash \in generateHash(10)
    /\ ~\E l \in Range(last.pre.links) : l.hash = last.link.hash

\* C21 witness: a createLink succeeded for a content item its owner already
\* had a Link for, and the owner now holds two.
C21_Witness ==
  /\ ItemLinkCreated
  /\ Len(LinksOfPair(last.pre.links, last.userId, last.body.contentId)) > 0
  /\ Len(LinksOfPair(links, last.userId, last.body.contentId)) = 2

\* The request answered last was a createSummaryLink.
SummaryLinkRequested == Quiet /\ last.op = "createSummaryLink"

\* A createSummaryLink for a pair that already has a Link answers 200 with the
\* URL of the pair's first Link and leaves the Link collection as it was.
ExistingSummaryLinkReused ==
  (SummaryLinkRequested
     /\ Len(LinksOfPair(last.pre.links, last.userId, last.body.contentId)) > 0)
    => /\ last.status = 200
       /\ links = last.pre.links
       /\ SummaryLinkUrl(last.link.hash)
            = SummaryLinkUrl(LinksOfPair(last.pre.links, last.userId,
                                         last.body.contentId)[1].hash)

\* A createSummaryLink answered right after a successful one of the same owner
\* and content item returns the same URL and adds no Link for the pair.
RepeatedSummaryLinkSameUrl ==
  (/\ last.op = "createSummaryLink" /\ last.status \in {200, 201}
   /\ last'.op = "createSummaryLink" /\ last'.n # last.n
   /\ last'.userId = last.userId /\ last'.body.contentId = last.body.contentId)
    => /\ last'.status = 200
       /\ SummaryLinkUrl(last'.link.hash) = SummaryLinkUrl(last.link.hash)
       /\ Len(LinksOfPair(links', last.userId, last.body.contentId))
            = Len(LinksOfPair(links, last.userId, last.body.contentId))

\* C22: createSummaryLink is find-or-create: when a Link of the (owner,
\* content) pair exists the call adds no Link and returns the URL of an
\* existing one, so calls that do not overlap return the same URL and leave
\* the number of Links of the pair unchanged.
C22_SummaryLinkFindOrCreate ==
  []ExistingSummaryLinkReused /\ [][RepeatedSummaryLinkSameUrl]_vars

\* C22 witness: a second createSummaryLink of the same pair was answered with
\* the Link the first one created.
C22_Witness ==
  /\ SummaryLinkRequested /\ last.status = 200
  /\ Len(LinksOfPair(links, last.userId, last.body.contentId)) = 1
  /\ last.link \in Range(links)
  /\ last.pre.links # <<>>

\* The create requests a state shows: those running and the one answered last.
Creates == {x \in reqs \cup {last} : x.op = "addContent"}

\* C23 as stated: under any interleaving, the summary provider is invoked at
\* most once for a link while records with that link exist: no two creates
\* whose records are both stored have each invoked it for the same link.
C23_SummarizedOnce ==
  \A x, y \in Creates :
    (/\ x.invoked /\ y.invoked /\ x.body.link = y.body.link
     /\ CreatedBy(x.n) # NoDoc /\ CreatedBy(y.n) # NoDoc)
      => x.n = y.n

\* C23 amended: a create invokes the summary provider only if, when it looked
\* for a reusable summary, no record with its link carried a non-empty one.
C23_InvokedOnlyWithoutReusable ==
  \A x \in Creates : x.invoked => x.read = {}

\* C23 witness: two creates whose records are stored have each invoked the
\* provider for the same link, and the summary one of them generated is
\* stored.
C23_Witness ==
  \E x, y \in Creates :
    /\ x.n # y.n /\ x.body.link = y.body.link
    /\ x.invoked /\ y.invoked
    /\ Truthy(CreatedBy(x.n).summary) /\ CreatedBy(y.n) # NoDoc

\* The record with this id is stored before and after the step, and the step
\* changes it.
Rewritten(id) == ById(contents, id) # NoDoc /\ ById(contents', id) # NoDoc
                   /\ ById(contents', id) # ById(contents, id)

\* A step that changes a stored record sets only its summary, which was
\* absent, and is the save of the create that inserted the record.
SummaryWrittenOnceByCreator ==
  \A id \in StoredIds :
    Rewritten(id) =>
      /\ ById(contents, id).summary = Undefined
      /\ ById(contents', id) = [ById(contents, id) EXCEPT !.summary = ById(contents', id).summary]
      /\ \E r \in reqs : /\ r.op = "addContent" /\ r.n = id /\ r.userId = ById(contents, id).userId
                         /\ r.pc \in {"saveReused", "saveGenerated"}
                         /\ last' = [r EXCEPT !.pc = "done", !.sent = 1, !.status = 200,
                                              !.doc = ById(contents', id)]

\* C24: the summary of a Content record is written at most once over the
\* record's lifetime, by the create that inserted it and after the insertion,
\* and no later operation of any owner changes it.
C24_SummaryWrittenOnce == [][SummaryWrittenOnceByCreator]_vars

\* C24 witness: a create reused, for its own record, the summary of a record
\* of another owner, which still carries it.
C24_Witness ==
  /\ Quiet /\ last.op = "addContent" /\ last.status = 200
  /\ Truthy(CreatedBy(last.n).summary)
  /\ \E c \in Range(contents) :
       c.id < last.n /\ c.userId # last.userId /\ c.link = last.body.link
       /\ c.summary = CreatedBy(last.n).summary

\* The request answered last was a call of generateSummary.
SummarizeReturned == Quiet /\ last.op = "generateSummary"

\* The strategy the spec names for each supported source.
StrategyOf ==
  [youtube |-> "getYouTubeSummary", twitter |-> "getTwitterSummary",
   github |-> "getGitHubSummary"]

\* C25: generateSummary returns the empty summary, without error and without
\* an external call, for every source other than youtube, twitter and github,
\* and for each of these three it runs the strategy of that source and no other.
C25_UnsupportedSourceEmpty ==
  SummarizeReturned =>
    IF last.body.source \in DOMAIN StrategyOf
    THEN /\ last.strategy = StrategyOf[last.body.source]
         /\ last.out \in generateSummary(last.body.source, last.body.link)
    ELSE /\ last.out = Success("") /\ ~last.failed
         /\ last.strategy = "" /\ ~last.external

\* C25 witness: the second call of generateSummary, for a source of the schema
\* that has no strategy, returned ''.
C25_Witness ==
  /\ SummarizeReturned /\ last.body.source = "facebook" /\ last.out = Success("")
  /\ started = 2

\* C26: a create of {link: a GitHub repository URL, type: "repository", title,
\* source: "github"} by a user without a record for the link, with no external
\* call failing, is answered with a persisted Content whose summary is the
\* generated text, and afterwards the sources include "github".
C26_RepositoryCreateSummarized ==
  (/\ CreateAnswered /\ last.body = RepositoryBody
   /\ Len(OwnedWithLink(last.pre.contents, last.userId, last.body.link)) = 0
   /\ ~(last.invoked /\ last.failed))
    => /\ last.status = 200
       /\ CreatedBy(last.n) = last.doc
       /\ last.doc.summary \in Texts
       /\ \E x \in Range(sources) : x.name = "github"

\* The request answered last was answered by the error handler.
ErrorAnswered == last.op = "errorHandlerMiddleware"

\* The faults the claim names: a duplicate key, a cast fault and a validation
\* fault of the store.
StoreFault(err) ==
  err.code = 11000 \/ err.name = "CastError" \/ err.name = "ValidationError"

\* A fault of token verification.
TokenFault(err) ==
  "JsonWebTokenError" \in Classes(err.class) \/ err.name = "UnauthorizedError"

\* C29 as stated: the error handler answers a duplicate-key fault, a cast
\* fault and a store validation fault with 400, and every other fault that
\* carries no status of its own with 500.
C29_OtherFaults500 ==
  ErrorAnswered =>
    /\ StoreFault(last.err) => last.status = 400
    /\ (~StoreFault(last.err) /\ last.err.statusCode = 0) => last.status = 500

\* C29 amended: the error handler answers a duplicate-key fault, a cast fault
\* and a store validation fault with 400, a token verification fault with 401,
\* and every other fault with the status it carries, or with 500 when it
\* carries none.
C29_TokenFaults401 ==
  ErrorAnswered =>
    IF StoreFault(last.err) THEN last.status = 400
    ELSE IF TokenFault(last.err) THEN last.status = 401
    ELSE IF last.err.statusCode # 0 THEN last.status = last.err.statusCode
    ELSE last.status = 500

\* C29 witness: the error handler answered an expired token after it had
\* answered another error.
C29_Witness ==
  /\ ErrorAnswered /\ last.err.class = "TokenExpiredError" /\ last.status = 401
  /\ started > 1

\* The URL-safe alphabet: A-Z, a-z, 0-9, "-" and "_".
UrlSafe ==
  {"A", "B", "C", "D", "E", "F", "G", "H", "I", "J", "K", "L", "M", "N", "O", "P",
   "Q", "R", "S", "T", "U", "V", "W", "X", "Y", "Z", "a", "b", "c", "d", "e", "f",
   "g", "h", "i", "j", "k", "l", "m", "n", "o", "p", "q", "r", "s", "t", "u", "v",
   "w", "x", "y", "z", "0", "1", "2", "3", "4", "5", "6", "7", "8", "9", "-", "_"}

\* C28: for every length >= 1, generateHash(length) returns a string of
\* exactly length characters, all of the URL-safe alphabet (no "+", "/" or
\* "="), so item tokens have 10 characters and collection tokens 20.
C28_HashLengthAndAlphabet ==
  last.op = "generateHash" =>
    /\ Len(last.text) = last.length
    /\ \A i \in 1..Len(last.text) : last.text[i] \in UrlSafe

\* C28 witness: a token of 20 characters with "-" and "_" in it was generated
\* from bytes whose base64 text has "+" and "/".
C28_Witness ==
  /\ last.op = "generateHash" /\ last.length = 20 /\ Len(last.text) = 20
  /\ \E i, j \in 1..20 : last.text[i] = "-" /\ last.text[j] = "_"

\* A bearer token jwt.verify accepts.
ValidBearer(authorization) ==
  /\ authorization.present /\ authorization.scheme = "Bearer"
  /\ authorization.token.text # ""
  /\ authorization.token.signed /\ ~authorization.token.expired

AuthRequiredRoutes ==
  {"add-content", "get-all-content", "delete-content", "create-link", "brain-link",
   "summary-link"}

AuthRequiredHandlers ==
  {"addContent", "getAllContent", "deleteContent", "createLink", "createBrainLink",
   "createSummaryLink"}

C30_EveryResponseEnveloped ==
  last.op # "none" => {"statusCode", "success", "message", "data"} \subseteq ResponseKeys(last)

\* The runs of generateSummary: those under way and the one that returned last.
Runs == {x \in reqs \cup {last} : x.op = "generateSummary"}

\* The positions of the calls of run x made through axios.get, and of those
\* made to the generative model.
Gets(x) == {i \in 1..Len(x.calls) : x.calls[i].name # "generateContent"}
Generations(x) == {i \in 1..Len(x.calls) : x.calls[i].name = "generateContent"}

\* No call of run x repeats an earlier one of the run.
NoRetry(x) == \A i, j \in 1..Len(x.calls) : x.calls[i].name = x.calls[j].name => i = j

\* A generative call of run x is its last call and every call before it succeeded.
GenerationLastAfterSuccess(x) ==
  \A i \in Generations(x) : i = Len(x.calls) /\ \A j \in 1..(i - 1) : x.calls[j].ok

\* A run that rejected its link made no external call.
RejectedLinkNoCall(x) == x.out = Failure("InvalidLink") => x.calls = <<>>

\* C31 as stated: one invocation makes no retries and at most one metadata
\* fetch and one generative call, the generative call only after the fetch
\* succeeded, and no external call when the identifier extraction fails.
C31_OneCallPair ==
  \A x \in Runs :
    /\ NoRetry(x) /\ Cardinality(Gets(x)) <= 1 /\ Cardinality(Generations(x)) <= 1
    /\ GenerationLastAfterSuccess(x) /\ RejectedLinkNoCall(x)

\* C31 amended: one invocation makes no retries; its metadata fetches are the
\* requests of its strategy in their order (one for youtube and twitter, the
\* repository and then its readme for github), followed by at most one
\* generative call, which happens only after every fetch succeeded; when the
\* identifier extraction fails no external call is made.
C31_FetchesThenOneGeneration ==
  \A x \in Runs :
    /\ NoRetry(x) /\ Cardinality(Generations(x)) <= 1
    /\ \A i \in Gets(x) : i <= Len(MetadataCalls(x.strategy))
                          /\ x.calls[i].name = MetadataCalls(x.strategy)[i]
    /\ \A i \in Generations(x) : i = Len(MetadataCalls(x.strategy)) + 1
    /\ GenerationLastAfterSuccess(x) /\ RejectedLinkNoCall(x)

\* C31 witness: a run for a repository fetched the repository and its readme
\* and then had its text generated; the run before it rejected its link.
C31_Witness ==
  /\ Quiet /\ started = 2 /\ last.op = "generateSummary"
  /\ last.strategy = "getGitHubSummary" /\ last.out.ok
  /\ Len(last.calls) = 3 /\ last.calls[3].name = "generateContent"

\* The create answered last ended in the DuplicateForOwner outcome.
DuplicateAnswered == CreateAnswered /\ last.status = 409

\* The source the create answered last named was registered when it arrived.
SourceKnownBefore ==
  \E i \in 1..Len(last.pre.sources) : last.pre.sources[i].name = last.body.source

\* C34 as stated: a create answered 409 leaves the Content collection and the
\* Source registry as they were before the call.
C34_DuplicateChangesNothing ==
  DuplicateAnswered => contents = last.pre.contents /\ sources = last.pre.sources

\* C34 amended: a create answered 409 leaves the Content and Link collections
\* as they were; the Source registry is as it was when the create named no
\* source or a registered one, and otherwise has gained the record of the
\* source the create named.
C34_DuplicateRegistersSourceOnly ==
  DuplicateAnswered =>
    /\ contents = last.pre.contents /\ links = last.pre.links
    /\ sources = IF last.body.source = "" \/ SourceKnownBefore THEN last.pre.sources
                 ELSE Append(last.pre.sources, [name |-> last.body.source])

\* C34 witness: an owner posted a link again under a source not yet
\* registered, and was answered 409 after the source had been registered.
C34_Witness ==
  /\ DuplicateAnswered /\ last.body.source # "" /\ ~SourceKnownBefore
  /\ Len(sources) = Len(last.pre.sources) + 1

\* The request answered last was a disableShare (createBrainLink with
\* shareBrain false).
DisableAnswered == Quiet /\ last.op = "createBrainLink" /\ ~last.body.shareBrain

\* The Links of coll other than the collection-level Links of userId.
NotBrainLinksOf(coll, userId) ==
  SelectSeq(coll, LAMBDA l : ~(l.userId = userId /\ l.contentId = NoId))

\* The collection-level Links of userId in coll.
BrainLinksOf(coll, userId) ==
  SelectSeq(coll, LAMBDA l : l.userId = userId /\ l.contentId = NoId)

\* C36: disableShare(owner) deletes at most one Link, and only a
\* collection-level Link of the caller (its first, when it has one); the
\* caller's item-level Links and all Links of other owners stay as they were,
\* and the call is answered 200 also when the caller has no such Link.
C36_DisableDeletesOwnBrainLinkOnly ==
  DisableAnswered =>
    /\ last.status = 200
    /\ NotBrainLinksOf(links, last.userId) = NotBrainLinksOf(last.pre.links, last.userId)
    /\ BrainLinksOf(links, last.userId) =
         (IF Len(BrainLinksOf(last.pre.links, last.userId)) = 0 THEN <<>>
          ELSE Tail(BrainLinksOf(last.pre.links, last.userId)))
    /\ Len(last.pre.links) - Len(links) \in {0, 1}
    /\ contents = last.pre.contents /\ sources = last.pre.sources

\* C36 witness: the caller held an item-level Link, created first, and a
\* collection-level Link; disableShare removed the latter and kept the former.
C36_Witness ==
  /\ DisableAnswered /\ started = 3
  /\ Len(last.pre.links) = 2 /\ Len(links) = 1
  /\ links[1].userId = last.userId /\ links[1].contentId # NoId
  /\ last.pre.links[1] = links[1]

ContentAndLinkHandlers ==
  {"addContent", "getAllContent", "deleteContent", "getAllSources", "getContentSummary",
   "createLink", "createBrainLink", "getBrainLink", "createSummaryLink", "getSummaryLink"}

\* C39: a request handled by a content or link handler has no response while
\* its handler runs and exactly one when the handler has ended, on every
\* path: success, client error, or error passed to the top-level handler.
C39_ExactlyOneResponse ==
  /\ \A r \in reqs : r.op \in ContentAndLinkHandlers => r.sent = 0
  /\ last.op \in ContentAndLinkHandlers => last.sent = 1

\* C39 witness: getAllContent, whose check of the fetched page does not
\* return, answered a page without records, after a request that ended in an
\* error passed to the top-level handler.
C39_Witness ==
  /\ Quiet /\ started = 2 /\ last.op = "getAllContent" /\ last.page = <<>>
  /\ last.status = 200 /\ last.sent = 1

\* C35: every non-empty summary stored on a Content record with link L is a
\* text generateSummary returned to a create called with that same link L,
\* for this record or for another record with link L it was copied from; no
\* summary is copied between records with different links.
C35_SummaryFromOwnLink ==
  \A i \in 1..Len(contents) :
    Truthy(contents[i].summary) => <<contents[i].link, contents[i].summary>> \in produced

\* C35 witness: a create reused, without calling the provider, the summary
\* generated for another owner's record of the same link, while a record with
\* a different link is stored without a summary.
C35_Witness ==
  /\ Quiet /\ last.op = "addContent" /\ last.status = 200 /\ ~last.invoked
  /\ Truthy(last.doc.summary) /\ CreatedBy(last.n) = last.doc
  /\ \E c \in Range(contents) :
       c.link = last.body.link /\ c.userId # last.userId /\ c.summary = last.doc.summary
  /\ \E c \in Range(contents) : c.link # last.body.link /\ ~Truthy(c.summary)

\* The Otp record verifyEmail finds among those stored when the request
\* answered last arrived, by the hash of its path.
OtpBefore == FindOne(last.pre.otps, LAMBDA o : o.hashedCode = last.hash, NoOtp)

\* That record exists, its user exists, and the code supplied is its code.
CodeMatched ==
  /\ OtpBefore # NoOtp
  /\ \E u \in Range(last.pre.users) : u.id = OtpBefore.userId
  /\ OtpBefore.code = last.code

\* The user with this _id has the flag isEmailVerified set.
Verified(id) == \E u \in Range(users) : u.id = id /\ u.isEmailVerified

\* C32: verifyEmail sets isEmailVerified and issues a token only when an Otp
\* record with the hash exists, its user exists and the supplied code equals
\* the stored code; in every other case it answers 403 'Invalid code', issues
\* no token and changes neither the User nor the Otp records.
C32_VerifyOnlyOnMatch ==
  (Quiet /\ last.op = "verifyEmail" /\ ~CodeMatched) =>
    /\ last.status = 403 /\ last.message = "Invalid code" /\ last.token = NoId
    /\ users = last.pre.users /\ otps = last.pre.otps

\* C32 witness: verifyEmail found the Otp record of an existing user by its
\* hash, was given another code than the stored one, and answered 403.
C32_Witness ==
  /\ Quiet /\ last.op = "verifyEmail" /\ last.status = 403
  /\ OtpBefore # NoOtp /\ OtpBefore.code # last.code
  /\ \E u \in Range(users) : u.id = OtpBefore.userId /\ ~u.isEmailVerified

\* The request answered last is a createSession that accepted the password of
\* a user whose email is not verified and returned a verification hash.
UnverifiedLoginAnswered ==
  /\ Quiet /\ last.op = "createSession" /\ last.status = 200
  /\ last.message = "User Email not verified"

\* The request answered last is a verifyEmail with the hash and the code that
\* such a createSession, answered just before it, returned and mailed.
VerifyFollowsUnverifiedLogin ==
  /\ Quiet /\ last.op = "verifyEmail"
  /\ last.pre.previous.op = "createSession" /\ last.pre.previous.status = 200
  /\ last.pre.previous.message = "User Email not verified"
  /\ last.hash = last.pre.previous.hash /\ last.code = last.pre.previous.code

\* C33: after createSession accepted the password of a user whose email is
\* not verified, the hash it returns and the code it mails identify a stored
\* Otp record of that user, and a following verifyEmail with that hash and
\* code succeeds for that user.
C33_LoginHashIdentifiesOtp ==
  /\ UnverifiedLoginAnswered =>
       \E o \in Range(otps) :
         o.userId = last.fetchUser.id /\ o.hashedCode = last.hash /\ o.code = last.code
  /\ VerifyFollowsUnverifiedLogin =>
       /\ last.status = 200 /\ last.token = last.pre.previous.fetchUser.id
       /\ Verified(last.pre.previous.fetchUser.id)

\* No step resets the flag isEmailVerified of a stored user, or removes the
\* user.
FlagKept ==
  \A i \in 1..Len(users) :
    users[i].isEmailVerified =>
      /\ i <= Len(users') /\ users'[i].id = users[i].id /\ users'[i].isEmailVerified

\* C37: a token is only ever issued for a user whose isEmailVerified is true
\* at that moment (createSession issues none for an unverified user,
\* verifyEmail issues one only after setting the flag, refreshToken only on a
\* refresh token issued before), and the flag is never reset to false.
C37_TokensOnlyForVerified ==
  /\ [](/\ \A id \in tokens : Verified(id)
        /\ \A r \in reqs : r.token = NoId
        /\ last.token # NoId => last.token \in tokens /\ Verified(last.token)
        /\ (last.op = "refreshToken" /\ last.token # NoId) =>
             last.cookie.signed /\ last.cookie._id = last.token)
  /\ [][FlagKept]_vars

\* C37 witness: createSession issued a token for a user whose email had been
\* verified before the request arrived.
C37_Witness ==
  /\ Quiet /\ last.op = "createSession" /\ last.status = 200
  /\ last.token # NoId /\ Verified(last.token)
  /\ \E u \in Range(last.pre.users) : u.id = last.token /\ u.isEmailVerified

\* The request answered last is a verifyEmail that repeats the hash and the
\* code of a verifyEmail that succeeded just before it.
VerifyRepeated ==
  /\ Quiet /\ last.op = "verifyEmail"
  /\ last.pre.previous.op = "verifyEmail" /\ last.pre.previous.status = 200
  /\ last.hash = last.pre.previous.hash /\ last.code = last.pre.previous.code

====
